---- MODULE Spec2Model ----
(***************************************************************************)
(* Model of the timing engine and playback scheduler of diashow.py:        *)
(* DiashowCalculator, DiashowTimelineFactory, the segment classes and      *)
(* DiashowPlayer.                                                          *)
(*                                                                         *)
(* Times are Python floats in the program.  The model computes with exact  *)
(* rationals <<numerator, denominator>> (denominator > 0, lowest terms),   *)
(* so every statement checked here is a statement about the arithmetic    *)
(* the code writes down, without floating point rounding.                  *)
(*                                                                         *)
(* Indices are 0-based as in the program: entry i of the timeline is       *)
(* diashow_timeline.list[i + 1], image i is images[i + 1], and image       *)
(* index -1 is Python's "last element".                                    *)
(***************************************************************************)
EXTENDS Integers, Sequences, FiniteSets, TLC

(***************************************************************************)
(* Bounds of the model                                                     *)
(***************************************************************************)
\* longest image list played
MaxImages == 2
\* the wall clock is followed up to this many seconds after start()
MaxTime == 3
\* largest number of seconds between two clock reads of the loop
MaxDelta == 2
\* how many entries of SPEED_SELECTOR_VALUES the menu offers in the model
NumSpeeds == 2

(***************************************************************************)
(* Exact rational arithmetic                                               *)
(***************************************************************************)
Abs(n) == IF n < 0 THEN -n ELSE n

RECURSIVE Gcd(_, _)
Gcd(a, b) == IF b = 0 THEN a ELSE Gcd(b, a % b)

\* the rational n / d in lowest terms, d # 0
R(n, d) ==
    LET s == IF d < 0 THEN -1 ELSE 1
        g == Gcd(Abs(n), Abs(d))
    IN  <<(s * n) \div g, (s * d) \div g>>

RInt(n) == <<n, 1>>
RZero == <<0, 1>>
ROne == <<1, 1>>
RAdd(a, b) == R(a[1] * b[2] + b[1] * a[2], a[2] * b[2])
RSub(a, b) == R(a[1] * b[2] - b[1] * a[2], a[2] * b[2])
RMul(a, b) == R(a[1] * b[1], a[2] * b[2])
RDiv(a, b) == R(a[1] * b[2], a[2] * b[1])
RLt(a, b) == a[1] * b[2] < b[1] * a[2]
RLe(a, b) == a[1] * b[2] <= b[1] * a[2]
RGt(a, b) == RLt(b, a)
RGe(a, b) == RLe(b, a)

(***************************************************************************)
(* Configuration data                                                      *)
(***************************************************************************)
\* TimeValue members used by the model, in seconds
T_00_250_SECS == R(1, 4)
T_00_500_SECS == R(1, 2)
T_01_000_SECS == R(1, 1)
T_03_000_SECS == R(3, 1)
T_10_000_SECS == R(10, 1)
T_30_000_SECS == R(30, 1)

\* Optional[TimeValue]: None is the empty sequence, a value v is <<v>>
NoBlending == <<>>

create_default_weighting ==
    [r \in 0..5 |-> CASE r = 5 -> 125 [] r = 4 -> 125 [] r = 3 -> 100
                      [] r = 2 -> 75 [] r = 1 -> 50 [] OTHER -> 100]

\* the multipliers of the in-show speed selector, in the order of the list
SPEED_SELECTOR_VALUES ==
    << R(1, 1), R(3, 2), R(2, 1), R(3, 1), R(4, 1), R(5, 1),
       R(1, 5), R(1, 4), R(1, 3), R(1, 2), R(2, 3) >>

Speeds == { SPEED_SELECTOR_VALUES[i] : i \in 1..NumSpeeds }

ImageOrders == {"FORWARD", "REVERSE", "RANDOM"}

\* configurations of the start menu played by the model: shortest display
\* times of the selectors, one without and one with cross-fading
PlayConfigs ==
    { [min_time_per_image |-> T_00_500_SECS,
       max_time_per_image |-> T_01_000_SECS,
       blending_time |-> b,
       weighting |-> create_default_weighting,
       show_duration_in_minutes |-> RInt(1)] : b \in {NoBlending, <<T_00_250_SECS>>} }

\* the sorted image list of a node: filenames 1..n, with these ratings
NodeRatings == <<5, 3, 0, 4, 2, 1>>
NodeImages(n) == [i \in 1..n |-> [filename |-> i, rating |-> NodeRatings[i]]]

(***************************************************************************)
(* DiashowCalculator                                                       *)
(***************************************************************************)
\* the rating class an image is counted in (the if/elif chain of __init__)
CountedRating(image) ==
    IF image.rating = 2 THEN 2
    ELSE IF image.rating = 3 THEN 3
    ELSE IF image.rating = 4 THEN 4
    ELSE IF image.rating = 5 THEN 5
    ELSE IF image.rating = 1 THEN 1
    ELSE 0

\* the counters __5_star_cnt .. __0_star_cnt after __init__
star_cnt(imgs, r) ==
    Cardinality({ i \in 1..Len(imgs) : CountedRating(imgs[i]) = r })

\* __calc_image_duration without the comparison with the maximal time
calc_image_duration_no_upper_clamp(diashow_config, show_duration_in_seconds_per_weight, weighting) ==
    LET result == RMul(show_duration_in_seconds_per_weight, RInt(weighting))
        min_duration == diashow_config.min_time_per_image
    IN  IF RLt(result, min_duration) THEN min_duration ELSE result

calc_image_duration(diashow_config, show_duration_in_seconds_per_weight, weighting) ==
    LET result == RMul(show_duration_in_seconds_per_weight, RInt(weighting))
        min_duration == diashow_config.min_time_per_image
        max_duration == diashow_config.max_time_per_image
    IN  IF RLt(result, min_duration) THEN min_duration
        ELSE IF RGt(result, max_duration) THEN max_duration
        ELSE result

weighting_sum(imgs, diashow_config) ==
    star_cnt(imgs, 5) * diashow_config.weighting[5] +
    star_cnt(imgs, 4) * diashow_config.weighting[4] +
    star_cnt(imgs, 3) * diashow_config.weighting[3] +
    star_cnt(imgs, 2) * diashow_config.weighting[2] +
    star_cnt(imgs, 1) * diashow_config.weighting[1] +
    star_cnt(imgs, 0) * diashow_config.weighting[0]

RMin(a, b) == IF RLe(a, b) THEN a ELSE b

\* the smallest of the six per-rating durations (min(...) of calc)
min_image_duration(duration) ==
    RMin(duration[5], RMin(duration[4], RMin(duration[3],
        RMin(duration[2], RMin(duration[1], duration[0])))))

\* blending_time_in_seconds of the returned timing
\* the requested blending time taken as it is
calc_blending_time_unclamped(diashow_config, duration) ==
    IF diashow_config.blending_time # NoBlending
    THEN diashow_config.blending_time[1]
    ELSE RZero

\* the requested blending time limited to half of the smallest duration
calc_blending_time_half(diashow_config, duration) ==
    IF diashow_config.blending_time # NoBlending
    THEN LET max_blending_time_in_seconds == RDiv(min_image_duration(duration), RInt(2))
             act_blending_time_in_seconds == diashow_config.blending_time[1]
         IN  IF RGt(act_blending_time_in_seconds, max_blending_time_in_seconds)
             THEN max_blending_time_in_seconds
             ELSE act_blending_time_in_seconds
    ELSE RZero

calc_blending_time(diashow_config, duration) ==
    IF diashow_config.blending_time # NoBlending
    THEN LET max_blending_time_in_seconds == RDiv(min_image_duration(duration), RInt(3))
             act_blending_time_in_seconds == diashow_config.blending_time[1]
         IN  IF RGt(act_blending_time_in_seconds, max_blending_time_in_seconds)
             THEN max_blending_time_in_seconds
             ELSE act_blending_time_in_seconds
    ELSE RZero

\* calc with a weighting sum of 0 replaced by 1 before the division
calc_zero_sum_as_one(imgs, diashow_config) ==
    LET sum == IF weighting_sum(imgs, diashow_config) = 0
               THEN 1 ELSE weighting_sum(imgs, diashow_config)
        show_duration_in_seconds == RMul(diashow_config.show_duration_in_minutes, RInt(60))
        show_duration_in_seconds_per_weight == RDiv(show_duration_in_seconds, RInt(sum))
        duration == [r \in 0..5 |->
            calc_image_duration(diashow_config, show_duration_in_seconds_per_weight,
                                diashow_config.weighting[r])]
        blending == calc_blending_time(diashow_config, duration)
        actual_duration_in_seconds ==
            RAdd(RAdd(RAdd(RAdd(RAdd(RAdd(
                RMul(RInt(star_cnt(imgs, 5)), duration[5]),
                RMul(RInt(star_cnt(imgs, 4)), duration[4])),
                RMul(RInt(star_cnt(imgs, 3)), duration[3])),
                RMul(RInt(star_cnt(imgs, 2)), duration[2])),
                RMul(RInt(star_cnt(imgs, 1)), duration[1])),
                RMul(RInt(star_cnt(imgs, 0)), duration[0])),
                blending)
    IN  [error |-> "none",
         image_duration_in_seconds |-> duration,
         blending_time_in_seconds |-> blending,
         show_duration_in_minutes |-> RDiv(actual_duration_in_seconds, RInt(60))]

\* DiashowCalculator(imgs).calc(diashow_config); the division by a weighting
\* sum of 0 raises ZeroDivisionError
calc(imgs, diashow_config) ==
    IF weighting_sum(imgs, diashow_config) = 0
    THEN [error |-> "ZeroDivisionError"]
    ELSE
    LET show_duration_in_seconds == RMul(diashow_config.show_duration_in_minutes, RInt(60))
        show_duration_in_seconds_per_weight ==
            RDiv(show_duration_in_seconds, RInt(weighting_sum(imgs, diashow_config)))
        duration == [r \in 0..5 |->
            calc_image_duration(diashow_config, show_duration_in_seconds_per_weight,
                                diashow_config.weighting[r])]
        blending == calc_blending_time(diashow_config, duration)
        actual_duration_in_seconds ==
            RAdd(RAdd(RAdd(RAdd(RAdd(RAdd(
                RMul(RInt(star_cnt(imgs, 5)), duration[5]),
                RMul(RInt(star_cnt(imgs, 4)), duration[4])),
                RMul(RInt(star_cnt(imgs, 3)), duration[3])),
                RMul(RInt(star_cnt(imgs, 2)), duration[2])),
                RMul(RInt(star_cnt(imgs, 1)), duration[1])),
                RMul(RInt(star_cnt(imgs, 0)), duration[0])),
                blending)
    IN  [error |-> "none",
         image_duration_in_seconds |-> duration,
         blending_time_in_seconds |-> blending,
         show_duration_in_minutes |-> RDiv(actual_duration_in_seconds, RInt(60))]

(***************************************************************************)
(* Segments and DiashowTimelineFactory                                     *)
(***************************************************************************)
\* Python list indexing: a negative index counts from the end
PyIndex(imgs, index) == IF index < 0 THEN Len(imgs) + index ELSE index
PyItem(imgs, index) == imgs[PyIndex(imgs, index) + 1]

StartDiashowSegment(timing) ==
    [kind |-> "Start", blending_time_in_seconds |-> timing.blending_time_in_seconds,
     index |-> 0, next_index |-> 0,
     lifetime_in_seconds |-> timing.blending_time_in_seconds]

EndDiashowSegment(timing) ==
    [kind |-> "End", blending_time_in_seconds |-> timing.blending_time_in_seconds,
     index |-> -1, next_index |-> -1,
     lifetime_in_seconds |-> timing.blending_time_in_seconds]

CrossFadeDiashowSegment(timing, prev_index, next_index) ==
    [kind |-> "CrossFade", blending_time_in_seconds |-> timing.blending_time_in_seconds,
     index |-> prev_index, next_index |-> next_index,
     lifetime_in_seconds |-> timing.blending_time_in_seconds]

\* the chain of comparisons with the 5 star branch returning the 4 star time
get_image_duration_in_seconds_5_as_4(timing, image) ==
    IF image.rating = 2 THEN timing.image_duration_in_seconds[2]
    ELSE IF image.rating = 3 THEN timing.image_duration_in_seconds[3]
    ELSE IF image.rating = 4 THEN timing.image_duration_in_seconds[4]
    ELSE IF image.rating = 5 THEN timing.image_duration_in_seconds[4]
    ELSE IF image.rating = 1 THEN timing.image_duration_in_seconds[1]
    ELSE timing.image_duration_in_seconds[0]

\* the chain of comparisons with a rating above 5 taken as 5 stars
get_image_duration_in_seconds_above_5_as_5(timing, image) ==
    IF image.rating = 2 THEN timing.image_duration_in_seconds[2]
    ELSE IF image.rating = 3 THEN timing.image_duration_in_seconds[3]
    ELSE IF image.rating = 4 THEN timing.image_duration_in_seconds[4]
    ELSE IF image.rating >= 5 THEN timing.image_duration_in_seconds[5]
    ELSE IF image.rating = 1 THEN timing.image_duration_in_seconds[1]
    ELSE timing.image_duration_in_seconds[0]

get_image_duration_in_seconds(timing, image) ==
    IF image.rating = 2 THEN timing.image_duration_in_seconds[2]
    ELSE IF image.rating = 3 THEN timing.image_duration_in_seconds[3]
    ELSE IF image.rating = 4 THEN timing.image_duration_in_seconds[4]
    ELSE IF image.rating = 5 THEN timing.image_duration_in_seconds[5]
    ELSE IF image.rating = 1 THEN timing.image_duration_in_seconds[1]
    ELSE timing.image_duration_in_seconds[0]

\* the Fixed segment living for the whole duration of its image
FixedDiashowSegment_full_duration(timing, imgs, index) ==
    [kind |-> "Fixed", blending_time_in_seconds |-> timing.blending_time_in_seconds,
     index |-> index, next_index |-> index,
     lifetime_in_seconds |->
        get_image_duration_in_seconds(timing, PyItem(imgs, index))]

FixedDiashowSegment(timing, imgs, index) ==
    [kind |-> "Fixed", blending_time_in_seconds |-> timing.blending_time_in_seconds,
     index |-> index, next_index |-> index,
     lifetime_in_seconds |->
        RSub(get_image_duration_in_seconds(timing, PyItem(imgs, index)),
             timing.blending_time_in_seconds)]

StopDiashowSegment ==
    [kind |-> "Stop", blending_time_in_seconds |-> RZero,
     index |-> 0, next_index |-> 0, lifetime_in_seconds |-> RZero]

\* DiashowTimelineSegment.get_start_time / get_end_time
get_start_time(entry, s) == RDiv(entry._start_time_in_seconds, s)
get_end_time(entry, s) == RDiv(entry._end_time_in_seconds, s)

\* the next entry placed at the start of the previous entry
add_to_timeline_from_start(tl, next_segment) ==
    LET next_time == IF Len(tl) > 0 THEN get_start_time(tl[Len(tl)], ROne) ELSE RZero
    IN  Append(tl, [_start_time_in_seconds |-> next_time,
                    _end_time_in_seconds |-> RAdd(next_time, next_segment.lifetime_in_seconds),
                    segment |-> next_segment])

add_to_timeline(tl, next_segment) ==
    LET next_time == IF Len(tl) > 0 THEN get_end_time(tl[Len(tl)], ROne) ELSE RZero
    IN  Append(tl, [_start_time_in_seconds |-> next_time,
                    _end_time_in_seconds |-> RAdd(next_time, next_segment.lifetime_in_seconds),
                    segment |-> next_segment])

\* the for loop of create_timeline over enumerate(images[:-1]), indices 0..k-1
\* the loop starting at the second image
RECURSIVE add_pairs_skip_first(_, _, _, _)
add_pairs_skip_first(tl, timing, imgs, k) ==
    IF k <= 1 THEN tl
    ELSE LET before == add_pairs_skip_first(tl, timing, imgs, k - 1)
             index == k - 1
         IN  add_to_timeline(
                 add_to_timeline(before, FixedDiashowSegment(timing, imgs, index)),
                 CrossFadeDiashowSegment(timing, index, index + 1))

RECURSIVE add_pairs(_, _, _, _)
add_pairs(tl, timing, imgs, k) ==
    IF k = 0 THEN tl
    ELSE LET before == add_pairs(tl, timing, imgs, k - 1)
             index == k - 1
         IN  add_to_timeline(
                 add_to_timeline(before, FixedDiashowSegment(timing, imgs, index)),
                 CrossFadeDiashowSegment(timing, index, index + 1))

\* the image orders create_timeline can produce from imgs
ImagePermutations(imgs) ==
    { [i \in 1..Len(imgs) |-> imgs[f[i]]] :
        f \in { g \in [1..Len(imgs) -> 1..Len(imgs)] :
                    \A i, j \in 1..Len(imgs) : g[i] = g[j] => i = j } }

Reversed(imgs) == [i \in 1..Len(imgs) |-> imgs[Len(imgs) + 1 - i]]

OrderedImages(imgs, image_order) ==
    IF image_order = "REVERSE" THEN {Reversed(imgs)}
    ELSE IF image_order = "RANDOM" THEN ImagePermutations(imgs)
    ELSE {imgs}

\* the caller's list after create_timeline with random.shuffle applied to the
\* list itself instead of a copy
caller_images_shuffled_in_place(imgs, image_order, ordered) ==
    IF Len(imgs) > 0 /\ image_order = "RANDOM" THEN ordered ELSE imgs

\* the caller's list after create_timeline: REVERSE binds the name to a new
\* list, RANDOM shuffles a copy, FORWARD only reads the list
caller_images(imgs, image_order, ordered) == imgs

\* create_timeline appending the Stop entry for an empty image list too
create_timeline_always_stop(timing, ordered) ==
    IF Len(ordered) > 0
    THEN LET t1 == add_to_timeline(<<>>, StartDiashowSegment(timing))
             t2 == add_pairs(t1, timing, ordered, Len(ordered) - 1)
             t3 == add_to_timeline(t2, FixedDiashowSegment(timing, ordered, -1))
             t4 == add_to_timeline(t3, EndDiashowSegment(timing))
         IN  add_to_timeline(t4, StopDiashowSegment)
    ELSE add_to_timeline(<<>>, StopDiashowSegment)

\* create_timeline appending the Stop entry before the End entry
create_timeline_stop_before_end(timing, ordered) ==
    IF Len(ordered) > 0
    THEN LET t1 == add_to_timeline(<<>>, StartDiashowSegment(timing))
             t2 == add_pairs(t1, timing, ordered, Len(ordered) - 1)
             t3 == add_to_timeline(t2, FixedDiashowSegment(timing, ordered, -1))
             t4 == add_to_timeline(t3, StopDiashowSegment)
         IN  add_to_timeline(t4, EndDiashowSegment(timing))
    ELSE <<>>

\* create_timeline with the loop over all images instead of images[:-1]
create_timeline_loop_over_all(timing, ordered) ==
    IF Len(ordered) > 0
    THEN LET t1 == add_to_timeline(<<>>, StartDiashowSegment(timing))
             t2 == add_pairs(t1, timing, ordered, Len(ordered))
             t3 == add_to_timeline(t2, FixedDiashowSegment(timing, ordered, -1))
             t4 == add_to_timeline(t3, EndDiashowSegment(timing))
         IN  add_to_timeline(t4, StopDiashowSegment)
    ELSE <<>>

\* create_timeline once the order of the images is fixed to ordered
create_timeline(timing, ordered) ==
    IF Len(ordered) > 0
    THEN LET t1 == add_to_timeline(<<>>, StartDiashowSegment(timing))
             t2 == add_pairs(t1, timing, ordered, Len(ordered) - 1)
             t3 == add_to_timeline(t2, FixedDiashowSegment(timing, ordered, -1))
             t4 == add_to_timeline(t3, EndDiashowSegment(timing))
         IN  add_to_timeline(t4, StopDiashowSegment)
    ELSE <<>>

(***************************************************************************)
(* ImageLoader: the two image slots, keyed by the parity of the index      *)
(***************************************************************************)
\* Python's None for the slot indices
NoneIndex == -1

ImageLoader == [image0_index |-> NoneIndex, image1_index |-> NoneIndex]

check_negative_index(imgs, index) == IF index < 0 THEN Len(imgs) + index ELSE index

\* load_image that fills a slot only while it is empty
load_image_into_empty_slot(ld, imgs, index) ==
    LET i == check_negative_index(imgs, index)
    IN  IF i % 2 = 0
        THEN IF ld.image0_index = NoneIndex THEN [ld EXCEPT !.image0_index = i] ELSE ld
        ELSE IF ld.image1_index = NoneIndex THEN [ld EXCEPT !.image1_index = i] ELSE ld

load_image(ld, imgs, index) ==
    LET i == check_negative_index(imgs, index)
    IN  IF i = ld.image0_index \/ i = ld.image1_index THEN ld
        ELSE IF i % 2 = 0 THEN [ld EXCEPT !.image0_index = i]
        ELSE [ld EXCEPT !.image1_index = i]

\* get_image: the slot chosen by the parity of the index, given here by the
\* index of the image the slot was last filled with
get_image(ld, imgs, index) ==
    LET i == check_negative_index(imgs, index)
    IN  IF i % 2 = 0 THEN ld.image0_index ELSE ld.image1_index

\* the indices a segment passes to get_image in its update, in call order
segment_reads(seg) ==
    CASE seg.kind = "Start" -> <<0>>
      [] seg.kind = "End" -> <<-1>>
      [] seg.kind = "CrossFade" -> <<seg.index, seg.next_index>>
      [] seg.kind = "Fixed" -> <<seg.index>>
      [] OTHER -> <<>>

\* segment.start() for each segment class
segment_start(seg, ld, imgs) ==
    CASE seg.kind = "Start" -> load_image(ld, imgs, 0)
      [] seg.kind = "End" -> load_image(ld, imgs, -1)
      [] seg.kind = "CrossFade" ->
            load_image(load_image(ld, imgs, seg.index), imgs, seg.next_index)
      [] seg.kind = "Fixed" ->
            IF seg.index >= 0
            THEN load_image(load_image(ld, imgs, seg.index), imgs, seg.index + 1)
            ELSE load_image(ld, imgs, seg.index)
      [] OTHER -> ld

\* Python's round() of a float to an int: to the nearest integer, a tie to
\* the even one
round(x) ==
    LET floor == x[1] \div x[2]
        rest == RSub(x, RInt(floor))
    IN  IF RLt(rest, R(1, 2)) THEN floor
        ELSE IF RGt(rest, R(1, 2)) THEN floor + 1
        ELSE IF floor % 2 = 0 THEN floor ELSE floor + 1

\* the fade factor computed without the multiplication by the speed
fade_factor_ignoring_speed(seg, time_in_seconds, s) ==
    IF seg.kind = "End"
    THEN IF RGt(seg.blending_time_in_seconds, RZero)
         THEN RSub(ROne, RDiv(time_in_seconds, seg.blending_time_in_seconds))
         ELSE RZero
    ELSE IF RGt(seg.blending_time_in_seconds, RZero)
         THEN RDiv(time_in_seconds, seg.blending_time_in_seconds)
         ELSE ROne

\* fade_factor of the update methods of Start and CrossFade, and of End
fade_factor(seg, time_in_seconds, s) ==
    IF seg.kind = "End"
    THEN IF RGt(seg.blending_time_in_seconds, RZero)
         THEN RSub(ROne, RMul(RDiv(time_in_seconds, seg.blending_time_in_seconds), s))
         ELSE RZero
    ELSE IF RGt(seg.blending_time_in_seconds, RZero)
         THEN RMul(RDiv(time_in_seconds, seg.blending_time_in_seconds), s)
         ELSE ROne

\* the alpha of a fading image: 255 from a fade factor of 1.0 on
\* the alpha computed without the comparison with 1.0
fade_alpha_uncapped(fade) == round(RMul(RInt(255), fade))

fade_alpha(fade) ==
    IF RGe(fade, ROne) THEN 255 ELSE round(RMul(RInt(255), fade))

\* segment.update(surface, time_in_seconds, speed): the values passed to
\* set_alpha, in the order of the calls
segment_update(seg, time_in_seconds, s) ==
    CASE seg.kind = "Start" -> <<fade_alpha(fade_factor(seg, time_in_seconds, s))>>
      [] seg.kind = "End" ->
            IF RGt(fade_factor(seg, time_in_seconds, s), RZero)
            THEN <<round(RMul(RInt(255), fade_factor(seg, time_in_seconds, s)))>>
            ELSE <<>>
      [] seg.kind = "CrossFade" ->
            <<255, fade_alpha(fade_factor(seg, time_in_seconds, s))>>
      [] seg.kind = "Fixed" -> <<255>>
      [] OTHER -> <<>>

(***************************************************************************)
(* DiashowPlayer                                                           *)
(***************************************************************************)
MENU_WAITING_TIME_IN_SECONDS == R(1, 2)

\* the seconds the clock advances between two reads of the loop
ClockDeltas == { RInt(k) : k \in 0..MaxDelta }

VARIABLES
    images,                  \* play_node.images
    image_order,             \* the ImageOrder chosen in the start menu
    diashow_config,          \* the DiashowConfig of the start menu
    timing,                  \* the DiashowTiming handed to the player
    diashow_timeline,        \* [is_none, list, images]: None or the entries
                             \* and the ordered image list their segments use
    speed, pause, run,       \* __speed, __pause, __run
    diashow_timeline_index,  \* __diashow_timeline_index
    diashow_start_time,      \* __diashow_start_time, the anchor
    diashow_current_time,    \* __diashow_current_time
    previous_time,           \* locals of start()
    real_diashow_start_time,
    consider_menu,
    index_changed,
    menu_shown,              \* the menu handles the events of this iteration
    loader,                  \* the ImageLoader of start()
    rendered,                \* the segment.update call made by the operation
                             \* recorded in last, NoRender if it made none
    pc,                      \* "init", "running" (in the loop of start()),
                             \* "stopped" (start() returned), "crashed"
    failure,                 \* the exception that ended the program, or "none"
    last                     \* history: the last operation and the state before it

vars == <<images, image_order, diashow_config, timing, diashow_timeline, speed, pause, run,
          diashow_timeline_index, diashow_start_time, diashow_current_time,
          previous_time, real_diashow_start_time, consider_menu, index_changed,
          menu_shown, loader, rendered, pc, failure, last>>

NoneTimeline == [is_none |-> TRUE, list |-> <<>>, images |-> <<>>]

\* entry i (0-based) of a timeline
Entry(tl, i) == tl.list[i + 1]

\* the fields of the player the controller operations read and write
Player ==
    [timeline_index |-> diashow_timeline_index,
     start_time |-> diashow_start_time,
     current_time |-> diashow_current_time,
     speed |-> speed, pause |-> pause, run |-> run,
     loader |-> loader, failure |-> "none", started |-> -1]

Elapsed(p) == RSub(p.current_time, p.start_time)

\* the backward scan of goto_prev_image from index i: the target, or -1
RECURSIVE scan_prev(_, _)
scan_prev(tl, i) ==
    LET new_diashow_timeline_index == i - 1
    IN  IF new_diashow_timeline_index < 0 THEN -1
        ELSE IF Entry(tl, new_diashow_timeline_index).segment.kind = "Fixed"
             THEN new_diashow_timeline_index
             ELSE scan_prev(tl, new_diashow_timeline_index)

\* the forward scan of goto_next_image from index i: the target, or -1
RECURSIVE scan_next(_, _)
scan_next(tl, i) ==
    LET new_diashow_timeline_index == i + 1
    IN  IF new_diashow_timeline_index >= Len(tl.list) - 1 THEN -1
        ELSE IF Entry(tl, new_diashow_timeline_index).segment.kind = "Fixed"
             THEN new_diashow_timeline_index
             ELSE scan_next(tl, new_diashow_timeline_index)

set_pause(p, b) == [p EXCEPT !.pause = b]

\* goto_prev_image with the anchor moved the wrong way
goto_prev_image_shift_back(p, tl) ==
    IF tl.is_none THEN p
    ELSE
    LET segment_time == RSub(p.current_time, p.start_time)
        target == scan_prev(tl, p.timeline_index)
    IN  IF target = -1 THEN p
        ELSE
        LET new_timeline_segment == Entry(tl, target)
            new_start_time_offset ==
                RSub(segment_time, get_start_time(new_timeline_segment, p.speed))
        IN  IF ~RGe(new_start_time_offset, RZero)
            THEN [p EXCEPT !.failure = "AssertionError"]
            ELSE [p EXCEPT !.timeline_index = target,
                           !.start_time = RSub(p.start_time, new_start_time_offset),
                           !.loader = segment_start(new_timeline_segment.segment,
                                                    p.loader, tl.images),
                           !.started = target]

goto_prev_image(p, tl) ==
    IF tl.is_none THEN p
    ELSE
    LET segment_time == RSub(p.current_time, p.start_time)
        target == scan_prev(tl, p.timeline_index)
    IN  IF target = -1 THEN p
        ELSE IF p.speed = RZero THEN [p EXCEPT !.failure = "ZeroDivisionError"]
        ELSE
        LET new_timeline_segment == Entry(tl, target)
            new_start_time_offset ==
                RSub(segment_time, get_start_time(new_timeline_segment, p.speed))
        IN  IF ~RGe(new_start_time_offset, RZero)
            THEN [p EXCEPT !.failure = "AssertionError"]
            ELSE [p EXCEPT !.timeline_index = target,
                           !.start_time = RAdd(p.start_time, new_start_time_offset),
                           !.loader = segment_start(new_timeline_segment.segment,
                                                    p.loader, tl.images),
                           !.started = target]

goto_next_image(p, tl) ==
    IF tl.is_none THEN p
    ELSE
    LET segment_time == RSub(p.current_time, p.start_time)
        target == scan_next(tl, p.timeline_index)
    IN  IF target = -1 THEN p
        ELSE IF p.speed = RZero THEN [p EXCEPT !.failure = "ZeroDivisionError"]
        ELSE
        LET new_timeline_segment == Entry(tl, target)
            new_start_time_offset ==
                RSub(get_start_time(new_timeline_segment, p.speed), segment_time)
        IN  IF ~RGe(new_start_time_offset, RZero)
            THEN [p EXCEPT !.failure = "AssertionError"]
            ELSE [p EXCEPT !.timeline_index = target,
                           !.start_time = RSub(p.start_time, new_start_time_offset),
                           !.loader = segment_start(new_timeline_segment.segment,
                                                    p.loader, tl.images),
                           !.started = target]

\* set_speed that scales the elapsed time by old speed / new speed whatever
\* the duration of the active entry
set_speed_scaling_elapsed(p, tl, s) ==
    IF tl.is_none THEN [p EXCEPT !.speed = s]
    ELSE IF p.speed = RZero \/ s = RZero THEN [p EXCEPT !.failure = "ZeroDivisionError"]
    ELSE
    LET segment_time == RSub(p.current_time, p.start_time)
        new_current_time == RMul(segment_time, RDiv(p.speed, s))
        time_diff == RSub(new_current_time, segment_time)
    IN  [p EXCEPT !.start_time = RSub(p.start_time, time_diff), !.speed = s]

\* set_speed that keeps the time spent in the active entry instead of the
\* fraction of the entry
set_speed_keep_offset(p, tl, s) ==
    IF tl.is_none THEN [p EXCEPT !.speed = s]
    ELSE IF p.speed = RZero \/ s = RZero THEN [p EXCEPT !.failure = "ZeroDivisionError"]
    ELSE
    LET segment_time == RSub(p.current_time, p.start_time)
        actual_timeline_segment == Entry(tl, p.timeline_index)
        old_segment_start_time == get_start_time(actual_timeline_segment, p.speed)
        new_segment_start_time == get_start_time(actual_timeline_segment, s)
        new_current_time ==
            RAdd(RSub(segment_time, old_segment_start_time), new_segment_start_time)
        time_diff == RSub(new_current_time, segment_time)
    IN  [p EXCEPT !.start_time = RSub(p.start_time, time_diff), !.speed = s]

\* set_speed that takes the new position from the end of the active entry
set_speed_from_end(p, tl, s) ==
    IF tl.is_none THEN [p EXCEPT !.speed = s]
    ELSE
    LET segment_time == RSub(p.current_time, p.start_time)
        actual_timeline_segment == Entry(tl, p.timeline_index)
        old_segment_start_time == get_start_time(actual_timeline_segment, p.speed)
        old_segment_time_diff ==
            RSub(get_end_time(actual_timeline_segment, p.speed), old_segment_start_time)
        segment_time_ratio ==
            IF RGt(old_segment_time_diff, RZero)
            THEN RDiv(RSub(segment_time, old_segment_start_time), old_segment_time_diff)
            ELSE RZero
        new_segment_end_time == get_end_time(actual_timeline_segment, s)
        new_segment_time_diff ==
            RSub(new_segment_end_time, get_start_time(actual_timeline_segment, s))
        new_current_time ==
            RAdd(RMul(new_segment_time_diff, segment_time_ratio), new_segment_end_time)
    IN  [p EXCEPT !.start_time = RSub(p.start_time, RSub(new_current_time, segment_time)),
                  !.speed = s]

\* set_speed with the position taken from the timeline origin instead of
\* the start of the active entry
set_speed_ratio_from_origin(p, tl, s) ==
    IF tl.is_none THEN [p EXCEPT !.speed = s]
    ELSE
    LET segment_time == RSub(p.current_time, p.start_time)
        actual_timeline_segment == Entry(tl, p.timeline_index)
        old_segment_time_diff ==
            RSub(get_end_time(actual_timeline_segment, p.speed),
                 get_start_time(actual_timeline_segment, p.speed))
        segment_time_ratio ==
            IF RGt(old_segment_time_diff, RZero)
            THEN RDiv(segment_time, old_segment_time_diff)
            ELSE RZero
        new_segment_start_time == get_start_time(actual_timeline_segment, s)
        new_segment_time_diff ==
            RSub(get_end_time(actual_timeline_segment, s), new_segment_start_time)
        new_current_time ==
            RAdd(RMul(new_segment_time_diff, segment_time_ratio), new_segment_start_time)
    IN  [p EXCEPT !.start_time = RSub(p.start_time, RSub(new_current_time, segment_time)),
                  !.speed = s]

\* set_speed asserting that the timeline has been built
set_speed_requires_timeline(p, tl, s) ==
    IF tl.is_none THEN [p EXCEPT !.failure = "AssertionError"]
    ELSE IF p.speed = RZero \/ s = RZero THEN [p EXCEPT !.failure = "ZeroDivisionError"]
    ELSE
    LET segment_time == RSub(p.current_time, p.start_time)
        actual_timeline_segment == Entry(tl, p.timeline_index)
        old_segment_start_time == get_start_time(actual_timeline_segment, p.speed)
        old_segment_end_time == get_end_time(actual_timeline_segment, p.speed)
        old_segment_time_diff == RSub(old_segment_end_time, old_segment_start_time)
        segment_time_ratio ==
            IF RGt(old_segment_time_diff, RZero)
            THEN RDiv(RSub(segment_time, old_segment_start_time), old_segment_time_diff)
            ELSE RZero
        new_segment_start_time == get_start_time(actual_timeline_segment, s)
        new_segment_end_time == get_end_time(actual_timeline_segment, s)
        new_segment_time_diff == RSub(new_segment_end_time, new_segment_start_time)
        new_current_time ==
            RAdd(RMul(new_segment_time_diff, segment_time_ratio), new_segment_start_time)
        time_diff == RSub(new_current_time, segment_time)
    IN  [p EXCEPT !.start_time = RSub(p.start_time, time_diff), !.speed = s]

set_speed(p, tl, s) ==
    IF tl.is_none THEN [p EXCEPT !.speed = s]
    ELSE IF p.speed = RZero \/ s = RZero THEN [p EXCEPT !.failure = "ZeroDivisionError"]
    ELSE
    LET segment_time == RSub(p.current_time, p.start_time)
        actual_timeline_segment == Entry(tl, p.timeline_index)
        old_segment_start_time == get_start_time(actual_timeline_segment, p.speed)
        old_segment_end_time == get_end_time(actual_timeline_segment, p.speed)
        old_segment_time_diff == RSub(old_segment_end_time, old_segment_start_time)
        segment_time_ratio ==
            IF RGt(old_segment_time_diff, RZero)
            THEN RDiv(RSub(segment_time, old_segment_start_time), old_segment_time_diff)
            ELSE RZero
        new_segment_start_time == get_start_time(actual_timeline_segment, s)
        new_segment_end_time == get_end_time(actual_timeline_segment, s)
        new_segment_time_diff == RSub(new_segment_end_time, new_segment_start_time)
        new_current_time ==
            RAdd(RMul(new_segment_time_diff, segment_time_ratio), new_segment_start_time)
        time_diff == RSub(new_current_time, segment_time)
    IN  [p EXCEPT !.start_time = RSub(p.start_time, time_diff), !.speed = s]

\* cancel() ignored while the player is paused
cancel_unless_paused(p) == [p EXCEPT !.run = p.pause]

cancel(p) == [p EXCEPT !.run = FALSE]

\* what the history keeps: the operation, the seconds the clock advanced in
\* it (a tick), the index and the speed before it, the speed before the
\* operation that preceded it, and the entry whose segment.start() the
\* operation invoked (-1: none)
Snapshot(op, delta, started) ==
    [op |-> op,
     delta |-> delta,
     timeline_index |-> diashow_timeline_index,
     speed |-> speed,
     prev_speed |-> last.speed,
     started |-> started]

\* a segment.update call: the entry, its arguments, and the slots of the
\* loader it reads its images from
NoRender == [timeline_index |-> -1, time_in_seconds |-> RZero, speed |-> ROne,
             loader |-> ImageLoader]

\* DiashowPlayer.__init__ for a node, a configuration and an image order
Init ==
    /\ \E n \in 1..MaxImages : images = NodeImages(n)
    /\ image_order \in ImageOrders
    /\ diashow_config \in PlayConfigs
    /\ timing = calc(images, diashow_config)
    /\ diashow_timeline = NoneTimeline
    /\ speed = ROne
    /\ pause = FALSE
    /\ run = TRUE
    /\ diashow_timeline_index = -1
    /\ diashow_start_time = RZero
    /\ diashow_current_time = RZero
    /\ previous_time = RZero
    /\ real_diashow_start_time = RZero
    /\ consider_menu = FALSE
    /\ index_changed = FALSE
    /\ menu_shown = FALSE
    /\ loader = ImageLoader
    /\ rendered = NoRender
    /\ pc = "init"
    /\ failure = "none"
    /\ last = [op |-> "init", delta |-> RZero, timeline_index |-> -1,
               speed |-> ROne, prev_speed |-> ROne, started |-> -1]

\* the clock value get_current_time_since_epoch_in_seconds returns in start()
\* before the loop; later reads are counted from it
ClockAtStart == RZero

\* start() up to the loop: build the timeline, check it, start entry 0
Start ==
    /\ pc = "init"
    /\ \E ordered \in OrderedImages(images, image_order) :
        LET list == create_timeline(timing, ordered)
        IN  /\ diashow_timeline' = [is_none |-> FALSE, list |-> list, images |-> ordered]
            /\ images' = caller_images(images, image_order, ordered)
            /\ IF Len(list) > 0 /\ list[Len(list)].segment.kind = "Stop"
               THEN /\ loader' = segment_start(list[1].segment, ImageLoader, ordered)
                    /\ diashow_timeline_index' = 0
                    /\ diashow_start_time' = ClockAtStart
                    /\ real_diashow_start_time' = ClockAtStart
                    /\ previous_time' = ClockAtStart
                    /\ consider_menu' = FALSE
                    /\ pc' = "running"
                    /\ failure' = "none"
                    /\ last' = Snapshot("start", RZero, 0)
               ELSE /\ pc' = "crashed"
                    /\ failure' = "AssertionError"
                    /\ last' = Snapshot("start", RZero, -1)
                    /\ UNCHANGED <<loader, diashow_timeline_index, diashow_start_time,
                                   real_diashow_start_time, previous_time, consider_menu>>
    /\ UNCHANGED <<image_order, diashow_config, timing, speed, pause, run,
                   diashow_current_time, index_changed, menu_shown, rendered>>

\* the anchor after the pause compensation at the top of an iteration
\* the pause compensation measured from the anchor instead of the previous
\* clock read
pause_compensation_from_anchor(start_time, is_pause, now, previous) ==
    IF is_pause THEN RAdd(start_time, RSub(now, start_time)) ELSE start_time

pause_compensation(start_time, is_pause, now, previous) ==
    IF is_pause THEN RAdd(start_time, RSub(now, previous)) ELSE start_time

\* the entry after entry i has been reached at segment_time
\* the entry after entry i counted as reached only after its start
tick_reached_strictly(tl, i, segment_time, s) ==
    RGt(segment_time, get_start_time(Entry(tl, i + 1), s))

tick_reached(tl, i, segment_time, s) ==
    RGe(segment_time, get_start_time(Entry(tl, i + 1), s))

\* the loop never left at the Stop entry
tick_break_never(tl, i, segment_time, s) == FALSE

\* the loop is left: the entry reached is the Stop entry
tick_break(tl, i, segment_time, s) ==
    tick_reached(tl, i, segment_time, s) /\ Entry(tl, i + 1).segment.kind = "Stop"

\* __diashow_timeline_index after the "calculate timeline" step
\* the index advanced before the Stop entry is recognised
tick_index_before_break(tl, i, segment_time, s) ==
    IF tick_reached(tl, i, segment_time, s) THEN i + 1 ELSE i

tick_index(tl, i, segment_time, s) ==
    IF tick_reached(tl, i, segment_time, s) /\ ~tick_break(tl, i, segment_time, s)
    THEN i + 1
    ELSE i

\* a tick: the loop condition holds and the body runs from the clock read to
\* the call of menu.update, the clock having advanced by delta since the
\* previous read.  The controller operations below are what menu.update
\* may invoke before the next tick; flip() and the frame rate cap that end
\* the iteration change no state of the player.
Tick(delta) ==
    /\ pc = "running"
    /\ run
    /\ RLe(RAdd(previous_time, delta), RInt(MaxTime))
    /\ LET now == RAdd(previous_time, delta)
           start_time == pause_compensation(diashow_start_time, pause, now, previous_time)
           segment_time == RSub(now, start_time)
           next_timeline_segment == Entry(diashow_timeline, diashow_timeline_index + 1)
           reached == tick_reached(diashow_timeline, diashow_timeline_index,
                                   segment_time, speed)
           stop == tick_break(diashow_timeline, diashow_timeline_index,
                              segment_time, speed)
           new_index == tick_index(diashow_timeline, diashow_timeline_index,
                                   segment_time, speed)
           actual_timeline_segment == Entry(diashow_timeline, new_index)
           actual_segment_time ==
               RSub(segment_time, get_start_time(actual_timeline_segment, speed))
       IN  /\ diashow_current_time' = now
           /\ diashow_start_time' = start_time
           /\ previous_time' = now
           /\ menu_shown' = consider_menu
           /\ consider_menu' =
                (consider_menu \/
                 RGe(RSub(now, real_diashow_start_time), MENU_WAITING_TIME_IN_SECONDS))
           /\ IF speed = RZero
              THEN \* get_start_time divides by the speed
                   /\ pc' = "crashed"
                   /\ failure' = "ZeroDivisionError"
                   /\ index_changed' = FALSE
                   /\ rendered' = NoRender
                   /\ UNCHANGED <<loader, diashow_timeline_index>>
                   /\ last' = Snapshot("tick", delta, -1)
              ELSE IF stop
              THEN /\ pc' = "stopped"
                   /\ failure' = failure
                   /\ diashow_timeline_index' = new_index
                   /\ index_changed' = FALSE
                   /\ rendered' = NoRender
                   /\ UNCHANGED loader
                   /\ last' = Snapshot("tick", delta, -1)
              ELSE /\ pc' = "running"
                   /\ failure' = failure
                   /\ diashow_timeline_index' = new_index
                   /\ index_changed' = reached
                   /\ loader' = IF reached
                                THEN segment_start(next_timeline_segment.segment, loader,
                                                   diashow_timeline.images)
                                ELSE loader
                   /\ rendered' = [timeline_index |-> new_index,
                                   time_in_seconds |-> actual_segment_time,
                                   speed |-> speed,
                                   loader |-> loader']
                   /\ last' = Snapshot("tick", delta, IF reached THEN new_index ELSE -1)
    /\ UNCHANGED <<images, image_order, diashow_config, timing, diashow_timeline, speed, pause, run,
                   real_diashow_start_time>>

\* the end of an iteration: clock.tick(FPS) is not called
frame_cap_skipped == index_changed

\* the iteration in which cancel() was invoked ends and the loop condition
\* fails: start() returns
LoopExit ==
    /\ pc = "running"
    /\ ~run
    /\ pc' = "stopped"
    /\ UNCHANGED <<images, image_order, diashow_config, timing, diashow_timeline, speed, pause, run,
                   diashow_timeline_index, diashow_start_time, diashow_current_time,
                   previous_time, real_diashow_start_time, consider_menu, index_changed,
                   menu_shown, loader, rendered, failure, last>>

\* a controller operation invoked by the menu inside menu.update; q is the
\* player after the operation, an exception leaves the program
\* the controller call with a speed change written into the entries of the
\* timeline
Controller_rescaling_timeline(op, q) ==
    /\ pc = "running"
    /\ menu_shown
    /\ diashow_timeline_index' = q.timeline_index
    /\ diashow_start_time' = q.start_time
    /\ diashow_current_time' = q.current_time
    /\ speed' = q.speed
    /\ diashow_timeline' =
          [diashow_timeline EXCEPT !.list =
              [i \in DOMAIN diashow_timeline.list |->
                  [diashow_timeline.list[i] EXCEPT
                      !._start_time_in_seconds = RMul(@, RDiv(speed, q.speed)),
                      !._end_time_in_seconds = RMul(@, RDiv(speed, q.speed))]]]
    /\ pause' = q.pause
    /\ run' = q.run
    /\ loader' = q.loader
    /\ failure' = q.failure
    /\ pc' = IF q.failure = "none" THEN "running" ELSE "crashed"
    /\ last' = Snapshot(op, RZero, q.started)
    /\ rendered' = NoRender
    /\ UNCHANGED <<images, image_order, diashow_config, timing, previous_time,
                   real_diashow_start_time, consider_menu, index_changed, menu_shown>>

Controller(op, q) ==
    /\ pc = "running"
    /\ menu_shown
    /\ diashow_timeline_index' = q.timeline_index
    /\ diashow_start_time' = q.start_time
    /\ diashow_current_time' = q.current_time
    /\ speed' = q.speed
    /\ pause' = q.pause
    /\ run' = q.run
    /\ loader' = q.loader
    /\ failure' = q.failure
    /\ pc' = IF q.failure = "none" THEN "running" ELSE "crashed"
    /\ last' = Snapshot(op, RZero, q.started)
    /\ rendered' = NoRender
    /\ UNCHANGED <<images, image_order, diashow_config, timing, diashow_timeline, previous_time,
                   real_diashow_start_time, consider_menu, index_changed, menu_shown>>

SetPause(b) == Controller("set_pause", set_pause(Player, b))
GotoPrevImage == Controller("goto_prev_image", goto_prev_image(Player, diashow_timeline))
GotoNextImage == Controller("goto_next_image", goto_next_image(Player, diashow_timeline))
SetSpeed(s) == Controller("set_speed", set_speed(Player, diashow_timeline, s))
Cancel == Controller("cancel", cancel(Player))

Next ==
    \/ Start
    \/ \E delta \in ClockDeltas : Tick(delta)
    \/ LoopExit
    \/ \E b \in BOOLEAN : SetPause(b)
    \/ GotoPrevImage
    \/ GotoNextImage
    \/ \E s \in Speeds : SetSpeed(s)
    \/ Cancel

Spec == Init /\ [][Next]_vars

(***************************************************************************)
(* The player under a system clock that may be set back.  time.time() is   *)
(* not monotonic: a read may return less than the read before it.  Spec    *)
(* above follows the program under a non-decreasing clock; AnyClockSpec    *)
(* adds ticks whose clock read lies before the previous one.               *)
(***************************************************************************)
\* the seconds by which a clock read may lie before the previous read
ClockRegressions == { RInt(0 - k) : k \in 1..MaxDelta }

\* a tick whose clock read is delta (< 0) after the previous read; the clock
\* is followed down to its value at start()
ClockRegression(delta) ==
    /\ RGe(RAdd(previous_time, delta), ClockAtStart)
    /\ Tick(delta)

AnyClockNext ==
    \/ Start
    \/ \E delta \in ClockDeltas : Tick(delta)
    \/ \E delta \in ClockRegressions : ClockRegression(delta)

AnyClockSpec == Init /\ [][AnyClockNext]_vars

(***************************************************************************)
(* The player as a class: DiashowPlayer is constructed for any node and    *)
(* its public methods are called by whoever holds it, before start() as    *)
(* well as from inside the loop, set_speed with any number.  In the        *)
(* program only the in-show menu calls them, with the speeds of its        *)
(* selector (Spec above); ApiSpec follows the class beyond that use.       *)
(***************************************************************************)
\* the speeds a caller passes to set_speed
ApiSpeeds == Speeds \cup {RZero, RInt(0 - 1)}

\* DiashowPlayer.__init__ for a node that may have no images
ApiInit ==
    /\ \E n \in 0..MaxImages : images = NodeImages(n)
    /\ image_order \in ImageOrders
    /\ diashow_config \in PlayConfigs
    /\ timing = calc(NodeImages(IF Len(images) = 0 THEN 1 ELSE Len(images)), diashow_config)
    /\ diashow_timeline = NoneTimeline
    /\ speed = ROne
    /\ pause = FALSE
    /\ run = TRUE
    /\ diashow_timeline_index = -1
    /\ diashow_start_time = RZero
    /\ diashow_current_time = RZero
    /\ previous_time = RZero
    /\ real_diashow_start_time = RZero
    /\ consider_menu = FALSE
    /\ index_changed = FALSE
    /\ menu_shown = FALSE
    /\ loader = ImageLoader
    /\ rendered = NoRender
    /\ pc = "init"
    /\ failure = "none"
    /\ last = [op |-> "init", delta |-> RZero, timeline_index |-> -1,
               speed |-> ROne, prev_speed |-> ROne, started |-> -1]

\* a method of the player called directly; q is the player after the call,
\* an exception leaves the program
ApiCall(op, q) ==
    /\ pc \in {"init", "running"}
    /\ diashow_timeline_index' = q.timeline_index
    /\ diashow_start_time' = q.start_time
    /\ diashow_current_time' = q.current_time
    /\ speed' = q.speed
    /\ pause' = q.pause
    /\ run' = q.run
    /\ loader' = q.loader
    /\ failure' = q.failure
    /\ pc' = IF q.failure = "none" THEN pc ELSE "crashed"
    /\ last' = Snapshot(op, RZero, q.started)
    /\ rendered' = NoRender
    /\ UNCHANGED <<images, image_order, diashow_config, timing, diashow_timeline, previous_time,
                   real_diashow_start_time, consider_menu, index_changed, menu_shown>>

ApiGotoPrevImage == ApiCall("goto_prev_image", goto_prev_image(Player, diashow_timeline))
ApiGotoNextImage == ApiCall("goto_next_image", goto_next_image(Player, diashow_timeline))
ApiSetSpeed(s) == ApiCall("set_speed", set_speed(Player, diashow_timeline, s))

ApiNext ==
    \/ Start
    \/ \E delta \in ClockDeltas : Tick(delta)
    \/ ApiGotoPrevImage
    \/ ApiGotoNextImage
    \/ \E s \in ApiSpeeds : ApiSetSpeed(s)

ApiSpec == ApiInit /\ [][ApiNext]_vars

(***************************************************************************)
(* The start menu: DiashowStartMenu holds the configuration and the        *)
(* calculator of the node; update_timing computes the timing the player    *)
(* is then constructed with.  CalcSpec draws the node and the              *)
(* configuration, applies update_timing, and lets start() build the        *)
(* timeline.                                                               *)
(***************************************************************************)
\* the ratings of the images of the nodes drawn
CalcRatings == {0, 5}

\* the sorted image lists of the nodes drawn: filenames 1..n, any ratings
CalcImages ==
    UNION { { [i \in 1..n |-> [filename |-> i, rating |-> f[i]]] :
                f \in [1..n -> CalcRatings] } : n \in 1..MaxImages }

\* weights of a RatingWeighting: the ends of the slider range, and 0, which
\* only a stored configuration can hold
CalcWeights == {0, 25, 200}

\* the weightings drawn: the weights of the ratings drawn vary, the others
\* are the defaults
CalcWeightings ==
    { [r \in 0..5 |-> IF r \in CalcRatings THEN w[r] ELSE create_default_weighting[r]] :
        w \in [CalcRatings -> CalcWeights] }

\* the TimeValue members drawn for the minimal and maximal time per image;
\* the two selectors are independent of each other
CalcTimeValues == {T_00_500_SECS, T_10_000_SECS, T_30_000_SECS}

\* the entries of BLENDING_TIME_VALUE_SELECTOR_LIST drawn
CalcBlendingTimes == {NoBlending, <<T_00_250_SECS>>, <<T_03_000_SECS>>}

CalcConfigs ==
    { [min_time_per_image |-> lo,
       max_time_per_image |-> hi,
       blending_time |-> b,
       weighting |-> w,
       show_duration_in_minutes |-> RInt(1)] :
        lo \in CalcTimeValues, hi \in CalcTimeValues,
        b \in CalcBlendingTimes, w \in CalcWeightings }

\* self.__timing = None
NoTiming == [error |-> "unset"]

\* DiashowStartMenu.__init__ for a node and a configuration, and the image
\* order selected in the menu
CalcInit ==
    /\ images \in CalcImages
    /\ image_order \in ImageOrders
    /\ diashow_config \in CalcConfigs
    /\ timing = NoTiming
    /\ diashow_timeline = NoneTimeline
    /\ speed = ROne
    /\ pause = FALSE
    /\ run = TRUE
    /\ diashow_timeline_index = -1
    /\ diashow_start_time = RZero
    /\ diashow_current_time = RZero
    /\ previous_time = RZero
    /\ real_diashow_start_time = RZero
    /\ consider_menu = FALSE
    /\ index_changed = FALSE
    /\ menu_shown = FALSE
    /\ loader = ImageLoader
    /\ rendered = NoRender
    /\ pc = "menu"
    /\ failure = "none"
    /\ last = [op |-> "init", delta |-> RZero, timeline_index |-> -1,
               speed |-> ROne, prev_speed |-> ROne, started |-> -1]

\* update_timing and the construction of the player with its result; an
\* exception of calc leaves the program
UpdateTiming ==
    /\ pc = "menu"
    /\ LET result == calc(images, diashow_config)
       IN  IF result.error = "none"
           THEN /\ timing' = result
                /\ pc' = "init"
                /\ failure' = "none"
           ELSE /\ timing' = timing
                /\ pc' = "crashed"
                /\ failure' = result.error
    /\ last' = Snapshot("update_timing", RZero, -1)
    /\ UNCHANGED <<images, image_order, diashow_config, diashow_timeline, speed, pause,
                   run, diashow_timeline_index, diashow_start_time,
                   diashow_current_time, previous_time, real_diashow_start_time,
                   consider_menu, index_changed, menu_shown, loader, rendered>>

CalcNext ==
    \/ UpdateTiming
    \/ Start

CalcSpec == CalcInit /\ [][CalcNext]_vars

(***************************************************************************)
(* Notions the properties are stated in                                    *)
(***************************************************************************)
Running == pc = "running"

\* the entry at the player's index
ActiveEntry(p) == Entry(diashow_timeline, p.timeline_index)

\* the length of an entry at speed s
EntryLength(entry, s) == RSub(get_end_time(entry, s), get_start_time(entry, s))

\* the fractional position of the player within its active entry
Ratio(p) ==
    RDiv(RSub(Elapsed(p), get_start_time(ActiveEntry(p), p.speed)),
         EntryLength(ActiveEntry(p), p.speed))

\* the position of the player lies within its active entry
Inside(p) ==
    /\ RLe(get_start_time(ActiveEntry(p), p.speed), Elapsed(p))
    /\ RLe(Elapsed(p), get_end_time(ActiveEntry(p), p.speed))

\* the indices of the Fixed entries of the timeline
FixedIndices ==
    { j \in 0..(Len(diashow_timeline.list) - 1) :
        Entry(diashow_timeline, j).segment.kind = "Fixed" }

SetMin(S) == CHOOSE x \in S : \A y \in S : x <= y
SetMax(S) == CHOOSE x \in S : \A y \in S : x >= y

\* the nearest Fixed entry after / before index i, -1 if there is none
NearestFixedAfter(i) ==
    LET S == { j \in FixedIndices : j > i } IN IF S = {} THEN -1 ELSE SetMin(S)
NearestFixedBefore(i) ==
    LET S == { j \in FixedIndices : j < i } IN IF S = {} THEN -1 ELSE SetMax(S)

(***************************************************************************)
(* C1: set_speed(newSpeed) keeps the fractional position within the active *)
(* entry when that entry has positive duration: the ratio                  *)
(* (elapsed - start(speed)) / (end(speed) - start(speed)) is the same      *)
(* before the call at the old speed and after it at the new speed, and     *)
(* the stored speed is newSpeed afterwards.                                *)
(***************************************************************************)
C1_SetSpeedKeepsRatio ==
    [][ \A s \in Speeds :
          (SetSpeed(s) /\ RGt(EntryLength(ActiveEntry(Player), speed), RZero))
              => (Ratio(Player') = Ratio(Player) /\ speed' = s) ]_vars

\* a speed change has acted strictly inside an entry of positive duration
C1_Witness ==
    /\ Running
    /\ last.op = "set_speed"
    /\ last.speed # speed
    /\ RGt(EntryLength(ActiveEntry(Player), speed), RZero)
    /\ RGt(Ratio(Player), RZero)
    /\ RLt(Ratio(Player), ROne)

(***************************************************************************)
(* C2: whenever goto_prev_image or goto_next_image finds a target, the     *)
(* anchor shift is non-negative, so the assertion inside the seek never    *)
(* fails in any reachable state.                                           *)
(***************************************************************************)
C2_SeekAssertionNeverFails ==
    ~(pc = "crashed" /\ last.op \in {"goto_prev_image", "goto_next_image"})

\* the player fields a seek that finds no target must leave alone
SeekNoOp ==
    /\ UNCHANGED <<diashow_timeline_index, diashow_start_time, diashow_current_time,
                   speed, pause, run, loader>>
    /\ last'.started = -1

(***************************************************************************)
(* C3: goto_next_image sets the index to the smallest j greater than the   *)
(* current index whose entry is Fixed, goto_prev_image to the largest j    *)
(* smaller than the current index whose entry is Fixed; if there is no     *)
(* such entry the call changes nothing and invokes no segment start().     *)
(***************************************************************************)
C3_SeekGoesToNearestFixed ==
    [][ /\ GotoNextImage =>
            IF NearestFixedAfter(diashow_timeline_index) # -1
            THEN diashow_timeline_index' = NearestFixedAfter(diashow_timeline_index)
            ELSE SeekNoOp
        /\ GotoPrevImage =>
            IF NearestFixedBefore(diashow_timeline_index) # -1
            THEN diashow_timeline_index' = NearestFixedBefore(diashow_timeline_index)
            ELSE SeekNoOp ]_vars

(***************************************************************************)
(* C4: after a successful goto_prev_image or goto_next_image, elapsed      *)
(* equals the target entry's start(speed), the index is the target's       *)
(* index and the target segment's start() has been invoked; speed and      *)
(* pause flag are unchanged.                                               *)
(***************************************************************************)
SeekLandsOn(target) ==
    /\ diashow_timeline_index' = target
    /\ Elapsed(Player') = get_start_time(Entry(diashow_timeline, target), speed)
    /\ last'.started = target
    /\ loader' = segment_start(Entry(diashow_timeline, target).segment, loader,
                               diashow_timeline.images)
    /\ speed' = speed
    /\ pause' = pause

C4_SeekLandsOnTargetStart ==
    [][ /\ (GotoNextImage /\ failure' = "none"
                /\ NearestFixedAfter(diashow_timeline_index) # -1)
            => SeekLandsOn(NearestFixedAfter(diashow_timeline_index))
        /\ (GotoPrevImage /\ failure' = "none"
                /\ NearestFixedBefore(diashow_timeline_index) # -1)
            => SeekLandsOn(NearestFixedBefore(diashow_timeline_index)) ]_vars

\* a backward seek has moved a paused player at a changed speed from a later
\* entry to the start of a Fixed entry
C4_Witness ==
    /\ Running
    /\ last.op = "goto_prev_image"
    /\ last.started = diashow_timeline_index
    /\ last.timeline_index > diashow_timeline_index + 1
    /\ speed # ROne
    /\ pause
    /\ Elapsed(Player) = get_start_time(ActiveEntry(Player), speed)
    /\ RGt(Elapsed(Player), RZero)

\* elapsed as the previous iteration left it: the previous clock read minus
\* the anchor
ElapsedBeforeTick == RSub(previous_time, diashow_start_time)

(***************************************************************************)
(* C5: in every tick executed while the pause flag is set, elapsed equals  *)
(* the elapsed of the previous tick whatever the clock delta (no seek or   *)
(* speed change in between); with the flag cleared elapsed grows by        *)
(* exactly the clock delta of the tick.                                    *)
(***************************************************************************)
C5_PauseFreezesElapsed ==
    [][ \A delta \in ClockDeltas :
          Tick(delta) =>
            IF pause
            THEN Elapsed(Player') = ElapsedBeforeTick
            ELSE Elapsed(Player') = RAdd(ElapsedBeforeTick, delta) ]_vars

\* a tick has run with the pause flag set while the clock advanced
C5_Witness ==
    /\ Running
    /\ last.op = "tick"
    /\ pause
    /\ RGt(last.delta, RZero)
    /\ RGt(Elapsed(Player), RZero)

(***************************************************************************)
(* C6: in every tick, if elapsed >= start(speed) of the entry at index + 1 *)
(* and that entry is not Stop, the index advances by exactly one and the   *)
(* entry's segment start() is invoked before the segment is rendered in    *)
(* the same tick; otherwise the tick leaves the index unchanged.  The      *)
(* entry rendered is the entry at the index after this step, at local      *)
(* offset elapsed - start(speed) and with the current speed.               *)
(***************************************************************************)
C6_TickAdvancesAndRenders ==
    [][ \A delta \in ClockDeltas :
          Tick(delta) =>
            LET elapsed == Elapsed(Player')
                next_entry == Entry(diashow_timeline, diashow_timeline_index + 1)
                advance == /\ RGe(elapsed, get_start_time(next_entry, speed))
                           /\ next_entry.segment.kind # "Stop"
            IN  /\ IF advance
                   THEN /\ diashow_timeline_index' = diashow_timeline_index + 1
                        /\ last'.started = diashow_timeline_index + 1
                        /\ loader' = segment_start(next_entry.segment, loader,
                                                   diashow_timeline.images)
                   ELSE /\ diashow_timeline_index' = diashow_timeline_index
                        /\ last'.started = -1
                        /\ loader' = loader
                /\ pc' = "running" =>
                      rendered' =
                        [timeline_index |-> diashow_timeline_index',
                         time_in_seconds |->
                            RSub(elapsed, get_start_time(ActiveEntry(Player'), speed)),
                         speed |-> speed,
                         loader |-> loader'] ]_vars

\* a tick has advanced the index at a changed speed and rendered the new
\* entry past its start
C6_Witness ==
    /\ Running
    /\ last.op = "tick"
    /\ index_changed
    /\ diashow_timeline_index = last.timeline_index + 1
    /\ rendered.timeline_index = diashow_timeline_index
    /\ RGt(rendered.time_in_seconds, RZero)
    /\ speed # ROne

(***************************************************************************)
(* C7: when in a tick elapsed >= Stop.start(speed) and the next entry is   *)
(* the Stop entry, the scheduler stops in that tick without rendering or   *)
(* advancing the index; Stopped is terminal: no later tick is executed,    *)
(* index, anchor and rendered output never change again.                   *)
(***************************************************************************)
C7_StopIsTerminal ==
    [][ /\ \A delta \in ClockDeltas :
             (/\ Tick(delta)
              /\ Entry(diashow_timeline, diashow_timeline_index + 1).segment.kind = "Stop"
              /\ RGe(Elapsed(Player'),
                     get_start_time(Entry(diashow_timeline, diashow_timeline_index + 1),
                                    speed)))
             => /\ pc' = "stopped"
                /\ rendered' = NoRender
                /\ diashow_timeline_index' = diashow_timeline_index
                /\ last'.started = -1
        /\ pc = "stopped" => UNCHANGED vars ]_vars

\* the loop has been left at the Stop entry
C7_Witness ==
    /\ pc = "stopped"
    /\ run
    /\ last.op = "tick"
    /\ Entry(diashow_timeline, diashow_timeline_index + 1).segment.kind = "Stop"

(***************************************************************************)
(* C8: cancel() stops the scheduler whatever the index, speed and pause    *)
(* flag: the iteration in which it is invoked is completed and no further  *)
(* tick is executed, even if the pause flag is set and the Stop entry has  *)
(* not been reached.                                                       *)
(***************************************************************************)
C8_CancelStops ==
    [][ /\ Cancel => (run' = FALSE /\ pc' = "running"
                      /\ UNCHANGED <<diashow_timeline_index, diashow_start_time,
                                     diashow_current_time, speed, pause>>)
        /\ ~run => /\ run' = FALSE
                   /\ \A delta \in ClockDeltas : ~Tick(delta)
                   /\ previous_time' = previous_time
                   /\ pc' \in {"running", "stopped", "crashed"} ]_vars

\* the loop has been left by cancel() while paused, the Stop entry not
\* being reached
C8_Witness ==
    /\ pc = "stopped"
    /\ ~run
    /\ pause
    /\ ~tick_reached(diashow_timeline, diashow_timeline_index,
                     Elapsed(Player), speed)

(***************************************************************************)
(* C9: speed round trip: from any position within the active entry (ratio  *)
(* in [0,1]), set_speed(s2) followed immediately by set_speed(s1),         *)
(* starting from speed s1, restores the elapsed value that held before     *)
(* the two calls, for all speeds s1, s2 of the selector.                   *)
(***************************************************************************)
C9_SpeedRoundTrip ==
    (Running /\ Inside(Player)) =>
        \A s2 \in Speeds :
            Elapsed(set_speed(set_speed(Player, diashow_timeline, s2),
                              diashow_timeline, speed))
                = Elapsed(Player)

\* the speed has been changed and changed back, without a tick in between,
\* strictly inside an entry of positive duration
C9_Witness ==
    /\ Running
    /\ last.op = "set_speed"
    /\ last.speed # speed
    /\ last.prev_speed = speed
    /\ RGt(EntryLength(ActiveEntry(Player), speed), RZero)
    /\ RGt(Ratio(Player), RZero)
    /\ RLt(Ratio(Player), ROne)

\* the images the segment of an entry draws (positions in the ordered list)
DisplayedImages(entry) ==
    { check_negative_index(diashow_timeline.images, entry.segment.index),
      check_negative_index(diashow_timeline.images, entry.segment.next_index) }

(***************************************************************************)
(* C10: seek round trip: from any index at which goto_next_image finds a   *)
(* target and the immediately following goto_prev_image also finds one,    *)
(* goto_next_image followed by goto_prev_image leaves the scheduler on a   *)
(* Fixed entry showing the image that was displayed before the two seeks.  *)
(***************************************************************************)
C10_SeekRoundTrip ==
    (/\ last.op = "goto_next_image"
     /\ NearestFixedAfter(last.timeline_index) # -1
     /\ NearestFixedBefore(NearestFixedAfter(last.timeline_index)) # -1)
    => /\ failure = "none"
       /\ LET back == goto_prev_image(Player, diashow_timeline)
          IN  /\ back.failure = "none"
              /\ Entry(diashow_timeline, back.timeline_index).segment.kind = "Fixed"
              /\ DisplayedImages(Entry(diashow_timeline, back.timeline_index))
                    \subseteq DisplayedImages(Entry(diashow_timeline, last.timeline_index))

(***************************************************************************)
(* C11: if the clock value read in a tick is smaller than the value read   *)
(* in the previous tick, the delta is treated as zero: elapsed             *)
(* (now - anchor) is not reduced by the regression, and the local offset   *)
(* handed to the active segment's update is not negative.                  *)
(***************************************************************************)
C11_ClockRegressionClamped ==
    [][ (\E delta \in ClockRegressions : ClockRegression(delta)) =>
            /\ RGe(Elapsed(Player)', Elapsed(Player))
            /\ (rendered' # NoRender => RGe(rendered'.time_in_seconds, RZero)) ]_vars

\* the second half of C11 alone: no update call of a tick that read a
\* smaller clock value gets a negative offset
C11_RenderOffsetNotNegative ==
    (last.op = "tick" /\ RLt(last.delta, RZero) /\ rendered # NoRender) =>
        RGe(rendered.time_in_seconds, RZero)

(***************************************************************************)
(* Notions the properties of the calculator are stated in                  *)
(***************************************************************************)
\* update_timing has returned a timing
TimingComputed == timing # NoTiming /\ timing.error = "none"

\* the ratings that have at least one image of the node
PresentRatings == { r \in 0..5 : \E i \in 1..Len(images) : CountedRating(images[i]) = r }

\* the sum of the weights of the images, image by image
RECURSIVE WeightedSumOfImages(_)
WeightedSumOfImages(k) ==
    IF k = 0 THEN 0
    ELSE WeightedSumOfImages(k - 1) + diashow_config.weighting[CountedRating(images[k])]

WeightedSum == WeightedSumOfImages(Len(images))

BudgetSeconds == RMul(diashow_config.show_duration_in_minutes, RInt(60))

\* the unclamped duration of rating r
RawDuration(r) ==
    RMul(RDiv(BudgetSeconds, RInt(WeightedSum)), RInt(diashow_config.weighting[r]))

RMax(a, b) == IF RGe(a, b) THEN a ELSE b
Clamp(x, lo, hi) == RMax(lo, RMin(x, hi))

MinLeMax == RLe(diashow_config.min_time_per_image, diashow_config.max_time_per_image)

(***************************************************************************)
(* C12: for every configuration with min <= max and a positive weighted    *)
(* sum, calc yields for every rating r that has at least one image         *)
(* duration[r] = clamp((budgetSeconds / weightedSum) * weight[r], min,     *)
(* max), hence min <= duration[r] <= max.                                  *)
(***************************************************************************)
C12_DurationIsClamped ==
    (TimingComputed /\ MinLeMax /\ WeightedSum > 0) =>
        \A r \in PresentRatings :
            /\ timing.image_duration_in_seconds[r] =
                   Clamp(RawDuration(r), diashow_config.min_time_per_image,
                         diashow_config.max_time_per_image)
            /\ RLe(diashow_config.min_time_per_image, timing.image_duration_in_seconds[r])
            /\ RLe(timing.image_duration_in_seconds[r], diashow_config.max_time_per_image)

\* a timing with one present rating cut at the maximum, one raised to the
\* minimum or left as computed
C12_Witness ==
    /\ TimingComputed /\ MinLeMax /\ WeightedSum > 0
    /\ \E r \in PresentRatings :
         /\ RGt(RawDuration(r), diashow_config.max_time_per_image)
         /\ timing.image_duration_in_seconds[r] = diashow_config.max_time_per_image
    /\ \E r \in PresentRatings :
         /\ RLt(RawDuration(r), diashow_config.min_time_per_image)
         /\ timing.image_duration_in_seconds[r] = diashow_config.min_time_per_image

\* a blend time is requested in the configuration
BlendRequested == diashow_config.blending_time # NoBlending

\* the smallest element of a non-empty set of rationals
RSetMin(S) == CHOOSE x \in S : \A y \in S : RLe(x, y)

\* the shortest duration among the ratings that have at least one image
ShortestPresent ==
    RSetMin({ timing.image_duration_in_seconds[r] : r \in PresentRatings })

(***************************************************************************)
(* C13: when a blend time is requested, the effective blend duration       *)
(* returned by calc equals min(requested, shortest / 3), where shortest is *)
(* the minimum of duration[r] over only the ratings r that have at least   *)
(* one image; the durations of ratings with no image do not influence the  *)
(* blend.                                                                  *)
(***************************************************************************)
C13_BlendFromPresentRatings ==
    (TimingComputed /\ BlendRequested) =>
        timing.blending_time_in_seconds =
            RMin(diashow_config.blending_time[1], RDiv(ShortestPresent, RInt(3)))

\* the same for the configurations the options menu can set: weights within
\* the slider range, minimal time not above the maximal time
C13_BlendFromPresentRatingsInMenuRange ==
    (/\ TimingComputed /\ BlendRequested /\ MinLeMax
     /\ \A r \in 0..5 : diashow_config.weighting[r] >= 25) =>
        timing.blending_time_in_seconds =
            RMin(diashow_config.blending_time[1], RDiv(ShortestPresent, RInt(3)))

(***************************************************************************)
(* C14: for every input of calc with positive weighted sum, the effective  *)
(* blend duration is <= (minimum duration[r] over the ratings present) / 3 *)
(* and it is exactly 0 when no blend time is requested.                    *)
(***************************************************************************)
C14_BlendAtMostThirdOfShortest ==
    (TimingComputed /\ WeightedSum > 0) =>
        /\ RLe(timing.blending_time_in_seconds, RDiv(ShortestPresent, RInt(3)))
        /\ (~BlendRequested => timing.blending_time_in_seconds = RZero)

\* a requested blend time is cut to exactly a third of the shortest
\* duration present
C14_Witness ==
    /\ TimingComputed /\ WeightedSum > 0 /\ BlendRequested
    /\ RLt(timing.blending_time_in_seconds, diashow_config.blending_time[1])
    /\ timing.blending_time_in_seconds = RDiv(ShortestPresent, RInt(3))

\* update_timing has been invoked
TimingRequested == pc # "menu"

TimelineBuilt == ~diashow_timeline.is_none

TimelineLen == Len(diashow_timeline.list)

\* the sum of the durations (end - start at unit speed) of entries 0..k-1
RECURSIVE SumOfEntryDurations(_)
SumOfEntryDurations(k) ==
    IF k = 0 THEN RZero
    ELSE RAdd(SumOfEntryDurations(k - 1),
              EntryLength(Entry(diashow_timeline, k - 1), ROne))

\* the sum of the durations calc assigned to the images 1..k, image by image
RECURSIVE SumOfImageDurations(_)
SumOfImageDurations(k) ==
    IF k = 0 THEN RZero
    ELSE RAdd(SumOfImageDurations(k - 1),
              timing.image_duration_in_seconds[CountedRating(images[k])])

\* the realized total duration calc reports, in seconds
RealizedTotal == RMul(timing.show_duration_in_minutes, RInt(60))

(***************************************************************************)
(* C16: round trip between calculator and timeline: for every non-empty    *)
(* image list, every image order and every timing computed by calc for     *)
(* that list, the sum of the durations of all timeline entries             *)
(* (equivalently the start time of the Stop entry) equals the realized     *)
(* total duration reported by calc, which is the sum over ratings of       *)
(* count[r] * duration[r] plus one effective blend duration.               *)
(***************************************************************************)
C16_TimelineRoundTrip ==
    (TimingComputed /\ TimelineBuilt) =>
        /\ SumOfEntryDurations(TimelineLen) = RealizedTotal
        /\ get_start_time(Entry(diashow_timeline, TimelineLen - 1), ROne) = RealizedTotal
        /\ RealizedTotal =
               RAdd(SumOfImageDurations(Len(images)), timing.blending_time_in_seconds)

\* a timeline of two images of different durations in another order than
\* the node's, with cross-fading
C16_Witness ==
    /\ TimingComputed /\ TimelineBuilt
    /\ Len(images) >= 2
    /\ diashow_timeline.images # images
    /\ RGt(timing.blending_time_in_seconds, RZero)
    /\ \E i, j \in 1..Len(images) :
         timing.image_duration_in_seconds[CountedRating(images[i])] #
         timing.image_duration_in_seconds[CountedRating(images[j])]

\* the kinds of the segments of the entries, in the order of the list
EntryKinds == [k \in 1..TimelineLen |-> diashow_timeline.list[k].segment.kind]

(***************************************************************************)
(* C17: for every non-empty image sequence, the timeline returned by       *)
(* create_timeline is contiguous: the first entry starts at 0 and for      *)
(* every i, entry[i].end = entry[i+1].start at unit speed; consequently    *)
(* the start times are non-decreasing along the list.                      *)
(***************************************************************************)
C17_TimelineContiguous ==
    TimelineBuilt =>
        /\ get_start_time(Entry(diashow_timeline, 0), ROne) = RZero
        /\ \A i \in 0..(TimelineLen - 2) :
             /\ get_end_time(Entry(diashow_timeline, i), ROne) =
                    get_start_time(Entry(diashow_timeline, i + 1), ROne)
             /\ RLe(get_start_time(Entry(diashow_timeline, i), ROne),
                    get_start_time(Entry(diashow_timeline, i + 1), ROne))

\* a timeline of at least two images whose entries all last a positive time
C17_Witness ==
    /\ TimelineBuilt
    /\ Len(images) >= 2
    /\ \A i \in 0..(TimelineLen - 2) :
         RGt(EntryLength(Entry(diashow_timeline, i), ROne), RZero)

(***************************************************************************)
(* C18: for every non-empty image sequence, the timeline returned by       *)
(* create_timeline contains exactly one Stop entry, it is the last entry,  *)
(* and its duration is zero (start = end).                                 *)
(***************************************************************************)
C18_ExactlyOneStopLast ==
    TimelineBuilt =>
        /\ Cardinality({ k \in 1..TimelineLen : EntryKinds[k] = "Stop" }) = 1
        /\ EntryKinds[TimelineLen] = "Stop"
        /\ get_start_time(Entry(diashow_timeline, TimelineLen - 1), ROne) =
               get_end_time(Entry(diashow_timeline, TimelineLen - 1), ROne)

\* a timeline of a node with images, ending after a positive time
C18_Witness ==
    /\ TimelineBuilt
    /\ Len(images) >= 1
    /\ EntryKinds[TimelineLen] = "Stop"
    /\ RGt(get_start_time(Entry(diashow_timeline, TimelineLen - 1), ROne), RZero)

(***************************************************************************)
(* C19: for every image sequence of length n >= 2, create_timeline         *)
(* returns exactly 2n + 3 entries.                                         *)
(***************************************************************************)
C19_EntryCount2nPlus3 ==
    (TimelineBuilt /\ Len(images) >= 2) => TimelineLen = 2 * Len(images) + 3

(***************************************************************************)
(* C19, amended: for every image sequence of length n >= 2,                *)
(* create_timeline returns exactly 2n + 2 entries: Start, n Fixed,         *)
(* n - 1 CrossFade, End and Stop.                                          *)
(***************************************************************************)
C19_EntryCount2nPlus2 ==
    (TimelineBuilt /\ Len(images) >= 2) =>
        /\ TimelineLen = 2 * Len(images) + 2
        /\ Cardinality({ k \in 1..TimelineLen : EntryKinds[k] = "Fixed" }) = Len(images)
        /\ Cardinality({ k \in 1..TimelineLen : EntryKinds[k] = "CrossFade" }) =
               Len(images) - 1

\* a timeline built for the longest image list of the model
C19_Witness ==
    /\ TimelineBuilt
    /\ Len(images) >= 2
    /\ Len(images) = MaxImages
    /\ TimelineLen = 2 * MaxImages + 2

(***************************************************************************)
(* C20: for a single image (n = 1) of any rating, create_timeline skips    *)
(* the cross-fade loop entirely and returns exactly the 4 entries Start,   *)
(* Fixed, End, Stop in that order, with no CrossFade entry.                *)
(***************************************************************************)
C20_SingleImageTimeline ==
    (TimelineBuilt /\ Len(images) = 1) =>
        EntryKinds = <<"Start", "Fixed", "End", "Stop">>

\* the timeline of a node with a single image
C20_Witness ==
    /\ TimelineBuilt
    /\ Len(images) = 1
    /\ TimelineLen = 4

\* the ordered image sequence the timeline was built for, and its length
Ordered == diashow_timeline.images
NumOrdered == Len(diashow_timeline.images)

\* the duration calc assigned to the rating of the k-th ordered image (k from 0)
DurationOfOrdered(k) ==
    timing.image_duration_in_seconds[CountedRating(Ordered[k + 1])]

\* the image (of the ordered sequence) a segment refers to by index
ImageOf(index) == PyItem(Ordered, index)

\* entry j is a segment of the given kind showing the k-th ordered image and,
\* for a cross-fade, fading to the image after it
EntryShows(j, kind, k) ==
    LET seg == Entry(diashow_timeline, j).segment
    IN  /\ seg.kind = kind
        /\ ImageOf(seg.index) = Ordered[k + 1]
        /\ kind = "CrossFade" => ImageOf(seg.next_index) = Ordered[k + 2]

(***************************************************************************)
(* C21: for an ordered image sequence image_0..image_(n-1) the timeline is *)
(* exactly: Start(image_0); then for each consecutive pair (image_i,       *)
(* image_(i+1)) a Fixed(image_i) of duration duration(rating of image_i) - *)
(* blend followed by a CrossFade(image_i, image_(i+1)) of duration blend;  *)
(* then Fixed(image_(n-1)) of duration duration(rating of image_(n-1)) -   *)
(* blend, End(image_(n-1)) and Stop.                                       *)
(***************************************************************************)
C21_TimelineShape ==
    (TimingComputed /\ TimelineBuilt) =>
        LET n == NumOrdered
            blend == timing.blending_time_in_seconds
        IN  /\ TimelineLen = 2 * n + 2
            /\ EntryShows(0, "Start", 0)
            /\ \A i \in 0..(n - 2) :
                 /\ EntryShows(2 * i + 1, "Fixed", i)
                 /\ EntryLength(Entry(diashow_timeline, 2 * i + 1), ROne) =
                        RSub(DurationOfOrdered(i), blend)
                 /\ EntryShows(2 * i + 2, "CrossFade", i)
                 /\ EntryLength(Entry(diashow_timeline, 2 * i + 2), ROne) = blend
            /\ EntryShows(2 * n - 1, "Fixed", n - 1)
            /\ EntryLength(Entry(diashow_timeline, 2 * n - 1), ROne) =
                   RSub(DurationOfOrdered(n - 1), blend)
            /\ EntryShows(2 * n, "End", n - 1)
            /\ Entry(diashow_timeline, 2 * n + 1).segment.kind = "Stop"

\* a timeline of images of both ratings with different durations, played in
\* reverse order with cross-fading
C21_Witness ==
    /\ TimingComputed /\ TimelineBuilt
    /\ image_order = "REVERSE"
    /\ NumOrdered >= 2
    /\ Ordered # images
    /\ RGt(timing.blending_time_in_seconds, RZero)
    /\ timing.image_duration_in_seconds[0] # timing.image_duration_in_seconds[5]
    /\ timing.image_duration_in_seconds[5] # timing.image_duration_in_seconds[4]

(***************************************************************************)
(* C22: for every timing produced by calc (with positive minimum           *)
(* duration) and every image of the list it was computed for, the Fixed    *)
(* entry of that image has a non-negative duration (duration(rating) -     *)
(* blend >= 0), so no timeline entry has end < start.                      *)
(***************************************************************************)
C22_NoNegativeEntry ==
    (TimingComputed /\ TimelineBuilt) =>
        /\ \A k \in 0..(NumOrdered - 1) :
             RGe(RSub(DurationOfOrdered(k), timing.blending_time_in_seconds), RZero)
        /\ \A j \in 0..(TimelineLen - 1) :
             /\ RGe(get_end_time(Entry(diashow_timeline, j), ROne),
                    get_start_time(Entry(diashow_timeline, j), ROne))
             /\ Entry(diashow_timeline, j).segment.kind = "Fixed" =>
                    RGe(Entry(diashow_timeline, j).segment.lifetime_in_seconds, RZero)

\* a timeline whose requested blend time exceeds the duration of one of its
\* images, so that only the limit of calc keeps the Fixed entry from being
\* negative
C22_Witness ==
    /\ TimingComputed /\ TimelineBuilt /\ BlendRequested
    /\ \E k \in 0..(NumOrdered - 1) :
         RGt(diashow_config.blending_time[1], DurationOfOrdered(k))
    /\ \A j \in 0..(TimelineLen - 1) :
         Entry(diashow_timeline, j).segment.kind = "Fixed" =>
             RGt(Entry(diashow_timeline, j).segment.lifetime_in_seconds, RZero)

(***************************************************************************)
(* C23: create_timeline on an empty image sequence returns an empty list   *)
(* (no Stop entry), and starting playback on it is refused as a            *)
(* precondition violation: DiashowPlayer.start fails before executing any  *)
(* tick or render.                                                         *)
(***************************************************************************)
C23_EmptyNodeRefused ==
    (Len(images) = 0) =>
        /\ last.op # "tick"
        /\ rendered = NoRender
        /\ TimelineBuilt =>
             /\ diashow_timeline.list = <<>>
             /\ pc = "crashed"
             /\ failure = "AssertionError"

\* start() has been called for a node without images
C23_Witness ==
    /\ Len(images) = 0
    /\ last.op = "start"
    /\ TimelineBuilt
    /\ pc = "crashed"

\* the fields of the player other than the speed are left as they are
PlayerKeptButSpeed ==
    /\ diashow_timeline_index' = diashow_timeline_index
    /\ diashow_start_time' = diashow_start_time
    /\ diashow_current_time' = diashow_current_time
    /\ pause' = pause
    /\ run' = run
    /\ loader' = loader
    /\ diashow_timeline' = diashow_timeline

(***************************************************************************)
(* C24: invoking goto_prev_image, goto_next_image or set_speed on a player *)
(* whose timeline has never been built (before start) is a precondition    *)
(* violation: the call fails instead of silently returning or silently     *)
(* changing state.                                                         *)
(***************************************************************************)
C24_CallBeforeStartFails ==
    (/\ last.op \in {"goto_prev_image", "goto_next_image", "set_speed"}
     /\ diashow_timeline.is_none) =>
        pc = "crashed"

(***************************************************************************)
(* C24, amended: invoking goto_prev_image, goto_next_image or set_speed on *)
(* a player whose timeline has never been built (before start) does not    *)
(* fail: goto_prev_image and goto_next_image return without changing any   *)
(* state, and set_speed stores the new speed and changes nothing else.     *)
(***************************************************************************)
C24_CallBeforeStartTolerated ==
    [][ diashow_timeline.is_none =>
          /\ (ApiGotoPrevImage \/ ApiGotoNextImage) =>
                /\ PlayerKeptButSpeed
                /\ speed' = speed
                /\ failure' = "none" /\ pc' = pc
          /\ \A s \in ApiSpeeds :
                ApiSetSpeed(s) =>
                    /\ PlayerKeptButSpeed
                    /\ speed' = s
                    /\ failure' = "none" /\ pc' = pc ]_vars

\* set_speed has stored another speed in a player that was not started
C24_Witness ==
    /\ last.op = "set_speed"
    /\ diashow_timeline.is_none
    /\ pc = "init"
    /\ speed # last.speed

(***************************************************************************)
(* C25: set_speed(speed) with speed <= 0 is rejected as a precondition     *)
(* violation in every state (timeline built or not): the call fails and    *)
(* the stored speed, which is always > 0, and the anchor time are left     *)
(* unchanged.                                                              *)
(***************************************************************************)
C25_NonPositiveSpeedRejected ==
    /\ [] RGt(speed, RZero)
    /\ [][ \A s \in ApiSpeeds :
             (RLe(s, RZero) /\ ApiSetSpeed(s)) =>
                 /\ pc' = "crashed"
                 /\ speed' = speed
                 /\ diashow_start_time' = diashow_start_time ]_vars

\* the part of C25 the code keeps: set_speed(0) on a built timeline fails
\* and leaves the speed and the anchor as they were
C25_ZeroSpeedOnBuiltTimelineFails ==
    [][ (~diashow_timeline.is_none /\ ApiSetSpeed(RZero)) =>
            /\ pc' = "crashed"
            /\ failure' = "ZeroDivisionError"
            /\ speed' = speed
            /\ diashow_start_time' = diashow_start_time ]_vars


(***************************************************************************)
(* A show of up to one image more than MaxImages, moved by ticks and seeks *)
(***************************************************************************)
\* with three images a slot is filled a second time
LoaderInit ==
    /\ \E n \in 1..(MaxImages + 1) : images = NodeImages(n)
    /\ image_order = "FORWARD"
    /\ diashow_config \in PlayConfigs
    /\ timing = calc(images, diashow_config)
    /\ diashow_timeline = NoneTimeline
    /\ speed = ROne
    /\ pause = FALSE
    /\ run = TRUE
    /\ diashow_timeline_index = -1
    /\ diashow_start_time = RZero
    /\ diashow_current_time = RZero
    /\ previous_time = RZero
    /\ real_diashow_start_time = RZero
    /\ consider_menu = FALSE
    /\ index_changed = FALSE
    /\ menu_shown = FALSE
    /\ loader = ImageLoader
    /\ rendered = NoRender
    /\ pc = "init"
    /\ failure = "none"
    /\ last = [op |-> "init", delta |-> RZero, timeline_index |-> -1,
               speed |-> ROne, prev_speed |-> ROne, started |-> -1]

LoaderNext ==
    \/ Start
    \/ \E delta \in ClockDeltas : Tick(delta)
    \/ GotoPrevImage
    \/ GotoNextImage

LoaderSpec == LoaderInit /\ [][LoaderNext]_vars

(***************************************************************************)
(* A show on a clock that runs without bound                               *)
(***************************************************************************)
\* The loop reads differences of clock values only, so the epoch of the
\* clock is moved to the last read; real_diashow_start_time is read only
\* while consider_menu is False.
Rebase ==
    /\ pc = "running"
    /\ diashow_current_time # RZero
    /\ diashow_current_time' = RZero
    /\ previous_time' = RSub(previous_time, diashow_current_time)
    /\ diashow_start_time' = RSub(diashow_start_time, diashow_current_time)
    /\ real_diashow_start_time' =
          IF consider_menu THEN RZero
          ELSE RSub(real_diashow_start_time, diashow_current_time)
    /\ UNCHANGED <<images, image_order, diashow_config, timing, diashow_timeline, speed,
                   pause, run, diashow_timeline_index, consider_menu, index_changed,
                   menu_shown, loader, rendered, pc, failure, last>>

LiveInit ==
    /\ \E n \in 1..MaxImages : images = NodeImages(n)
    /\ image_order = "FORWARD"
    /\ diashow_config \in PlayConfigs
    /\ timing = calc(images, diashow_config)
    /\ diashow_timeline = NoneTimeline
    /\ speed = ROne
    /\ pause = FALSE
    /\ run = TRUE
    /\ diashow_timeline_index = -1
    /\ diashow_start_time = RZero
    /\ diashow_current_time = RZero
    /\ previous_time = RZero
    /\ real_diashow_start_time = RZero
    /\ consider_menu = FALSE
    /\ index_changed = FALSE
    /\ menu_shown = FALSE
    /\ loader = ImageLoader
    /\ rendered = NoRender
    /\ pc = "init"
    /\ failure = "none"
    /\ last = [op |-> "init", delta |-> RZero, timeline_index |-> -1,
               speed |-> ROne, prev_speed |-> ROne, started |-> -1]

\* an iteration of the loop, whatever time has passed
AnyTick == \E delta \in ClockDeltas : Tick(delta)

LiveNext ==
    \/ Start
    \/ AnyTick
    \/ Rebase
    \/ \E b \in BOOLEAN : SetPause(b)
    \/ GotoPrevImage
    \/ GotoNextImage
    \/ \E s \in Speeds : SetSpeed(s)

\* an iteration that reads a later clock value than the one before
ClockAdvances == \E delta \in ClockDeltas \ {RZero} : Tick(delta)

\* ENABLED ClockAdvances, written out: the loop is running and the clock
\* can still be read one second later
ClockCanAdvance ==
    /\ pc = "running"
    /\ run
    /\ RLe(RAdd(previous_time, ROne), RInt(MaxTime))

\* start() is called; while the loop runs it goes on iterating and the clock
\* goes on advancing (weak fairness of ClockAdvances)
LiveSpec ==
    /\ LiveInit
    /\ [][LiveNext]_vars
    /\ WF_vars(Rebase)
    /\ <>(pc # "init")
    /\ ([]<>(~ClockCanAdvance) \/ []<><<ClockAdvances>>_vars)

(***************************************************************************)
(* The start menu of a node of four images                                 *)
(***************************************************************************)
\* the ratings of the files of the node, in the order of the filenames
ScenarioNode == <<5, 3, 0, 5>>
ScenarioRatings == {0, 3, 5}

\* the sorted image lists of the nodes drawn: four files, any of the ratings
ScenarioImages ==
    { [i \in 1..Len(ScenarioNode) |-> [filename |-> i, rating |-> f[i]]] :
        f \in [1..Len(ScenarioNode) -> ScenarioRatings] }

\* a show of one minute with 3 s to 10 s per image and the default weights,
\* without and with blending
ScenarioConfigs ==
    { [min_time_per_image |-> T_03_000_SECS,
       max_time_per_image |-> T_10_000_SECS,
       blending_time |-> b,
       weighting |-> create_default_weighting,
       show_duration_in_minutes |-> RInt(1)] : b \in {NoBlending, <<T_01_000_SECS>>} }

ScenarioInit ==
    /\ images \in ScenarioImages
    /\ image_order \in ImageOrders
    /\ diashow_config \in ScenarioConfigs
    /\ timing = NoTiming
    /\ diashow_timeline = NoneTimeline
    /\ speed = ROne
    /\ pause = FALSE
    /\ run = TRUE
    /\ diashow_timeline_index = -1
    /\ diashow_start_time = RZero
    /\ diashow_current_time = RZero
    /\ previous_time = RZero
    /\ real_diashow_start_time = RZero
    /\ consider_menu = FALSE
    /\ index_changed = FALSE
    /\ menu_shown = FALSE
    /\ loader = ImageLoader
    /\ rendered = NoRender
    /\ pc = "menu"
    /\ failure = "none"
    /\ last = [op |-> "init", delta |-> RZero, timeline_index |-> -1,
               speed |-> ROne, prev_speed |-> ROne, started |-> -1]

ScenarioSpec == ScenarioInit /\ [][CalcNext]_vars

(***************************************************************************)
(* A show with long cross-fades on a clock read every half second          *)
(***************************************************************************)
\* a start-menu configuration with the longest display time 3 s and 1 s of
\* blending: every image is shown 3 s, a third of it blending
FadeConfigs ==
    { [min_time_per_image |-> T_00_500_SECS,
       max_time_per_image |-> T_03_000_SECS,
       blending_time |-> <<T_01_000_SECS>>,
       weighting |-> create_default_weighting,
       show_duration_in_minutes |-> RInt(1)] }

\* the time between two reads of the clock: half seconds, and a stall of
\* MaxDelta seconds
FadeClockDeltas == { R(k, 2) : k \in 0..MaxDelta } \cup {RInt(MaxDelta)}

FadeInit ==
    /\ \E n \in 1..MaxImages : images = NodeImages(n)
    /\ image_order = "FORWARD"
    /\ diashow_config \in FadeConfigs
    /\ timing = calc(images, diashow_config)
    /\ diashow_timeline = NoneTimeline
    /\ speed = ROne
    /\ pause = FALSE
    /\ run = TRUE
    /\ diashow_timeline_index = -1
    /\ diashow_start_time = RZero
    /\ diashow_current_time = RZero
    /\ previous_time = RZero
    /\ real_diashow_start_time = RZero
    /\ consider_menu = FALSE
    /\ index_changed = FALSE
    /\ menu_shown = FALSE
    /\ loader = ImageLoader
    /\ rendered = NoRender
    /\ pc = "init"
    /\ failure = "none"
    /\ last = [op |-> "init", delta |-> RZero, timeline_index |-> -1,
               speed |-> ROne, prev_speed |-> ROne, started |-> -1]

FadeNext ==
    \/ Start
    \/ \E delta \in FadeClockDeltas : Tick(delta)
    \/ LoopExit
    \/ \E b \in BOOLEAN : SetPause(b)
    \/ GotoPrevImage
    \/ GotoNextImage
    \/ \E s \in Speeds : SetSpeed(s)
    \/ Cancel

FadeSpec == FadeInit /\ [][FadeNext]_vars

(***************************************************************************)
(* Opacity handed to the renderer                                          *)
(***************************************************************************)

\* the segment drawn by the last tick, its fade factor and the alphas it set
RenderedSegment == Entry(diashow_timeline, rendered.timeline_index).segment
RenderedFade == fade_factor(RenderedSegment, rendered.time_in_seconds, rendered.speed)
RenderedAlphas == segment_update(RenderedSegment, rendered.time_in_seconds, rendered.speed)
Drawn == rendered.timeline_index # -1

\* C26: under a non-decreasing clock every opacity a segment hands to the
\* renderer is within [0, 255], whatever ticks, pauses, speed changes and
\* seeks came before: Start and CrossFade pass round(255 * fade) with
\* 0 <= fade < 1, or 255; End passes round(255 * fade) with 0 < fade <= 1.
C26_OpacityInRange ==
    Drawn =>
        /\ \A i \in 1..Len(RenderedAlphas) : RenderedAlphas[i] \in 0..255
        /\ RenderedSegment.kind \in {"Start", "CrossFade"} =>
              /\ RGe(RenderedFade, RZero)
              /\ RenderedAlphas[Len(RenderedAlphas)] =
                    IF RLt(RenderedFade, ROne)
                    THEN round(RMul(RInt(255), RenderedFade)) ELSE 255
        /\ (RenderedSegment.kind = "End" /\ RenderedAlphas # <<>>) =>
              /\ RGt(RenderedFade, RZero)
              /\ RLe(RenderedFade, ROne)
              /\ RenderedAlphas = <<round(RMul(RInt(255), RenderedFade))>>

\* the end of the show fading out at a changed speed: the last image is
\* drawn with an opacity strictly between 0 and 255
C26_Witness ==
    /\ Drawn
    /\ RenderedSegment.kind = "End"
    /\ rendered.speed # ROne
    /\ RGt(RenderedFade, RZero)
    /\ RLt(RenderedFade, ROne)
    /\ RenderedAlphas[1] \in 1..254

\* a fade in progress: a blending entry drawn with a fade factor strictly
\* between 0 and 1
FadeInProgress ==
    /\ Drawn
    /\ RenderedSegment.kind \in {"Start", "CrossFade", "End"}
    /\ RGt(RenderedFade, RZero)
    /\ RLt(RenderedFade, ROne)

(***************************************************************************)
(* The calculator on four images rated 5, 3, 0, 5                          *)
(***************************************************************************)
ScenarioInput ==
    /\ [i \in 1..Len(images) |-> images[i].rating] = ScenarioNode
    /\ diashow_config.weighting[5] = 125
    /\ diashow_config.weighting[3] = 100
    /\ diashow_config.weighting[0] = 100
    /\ BudgetSeconds = RInt(60)
    /\ diashow_config.min_time_per_image = RInt(3)
    /\ diashow_config.max_time_per_image = RInt(10)
    /\ diashow_config.blending_time = NoBlending

\* C27: for 4 images rated [5, 3, 0, 5], weights 5->125, 3->100, 0->100, a
\* budget of 60 s, min 3 s, max 10 s and no blend, calc divides by the
\* weighted sum 450 and returns 10 s for each of the ratings 5, 3 and 0 (all
\* clamped to the max) and a blend of 0.
C27_ScenarioAllClampedToMax ==
    (ScenarioInput /\ timing # NoTiming) =>
        /\ timing.error = "none"
        /\ weighting_sum(images, diashow_config) = 450
        /\ timing.image_duration_in_seconds[5] = RInt(10)
        /\ timing.image_duration_in_seconds[3] = RInt(10)
        /\ timing.image_duration_in_seconds[0] = RInt(10)
        /\ timing.blending_time_in_seconds = RZero

\* the timing of the scenario has been computed; each unclamped duration
\* (60 / 450 times the weight) is above the max
C27_Witness ==
    /\ ScenarioInput
    /\ TimingComputed
    /\ \A r \in {5, 3, 0} : RGt(RawDuration(r), diashow_config.max_time_per_image)
    /\ RawDuration(5) = R(50, 3)

(***************************************************************************)
(* Fades and the speed                                                     *)
(***************************************************************************)
\* the active entry blends over a positive time
Blending ==
    /\ Running
    /\ ActiveEntry(Player).segment.kind \in {"Start", "CrossFade", "End"}
    /\ RGt(ActiveEntry(Player).segment.blending_time_in_seconds, RZero)

\* the fade factor and the alphas update computes from (local offset, speed)
\* for entry index of the timeline, elapsed seconds into the show, at speed s
FadeAt(index, elapsed, s) ==
    fade_factor(Entry(diashow_timeline, index).segment,
                RSub(elapsed, get_start_time(Entry(diashow_timeline, index), s)), s)
AlphasAt(index, elapsed, s) ==
    segment_update(Entry(diashow_timeline, index).segment,
                   RSub(elapsed, get_start_time(Entry(diashow_timeline, index), s)), s)

CurrentFade ==
    FadeAt(diashow_timeline_index, RSub(diashow_current_time, diashow_start_time), speed)

\* C28: while a Start, CrossFade or End entry of positive blend duration is
\* active, the fade factor update computes from (local offset, speed) is the
\* same immediately before and immediately after set_speed(newSpeed), for
\* every newSpeed > 0: the opacity does not jump, the fade is not replayed.
C28_FadeContinuousAcrossSetSpeed ==
    [][ \A s \in Speeds :
          (Blending /\ SetSpeed(s)) =>
              /\ speed' = s
              /\ FadeAt(diashow_timeline_index',
                        RSub(diashow_current_time', diashow_start_time'), speed') =
                 CurrentFade
              /\ AlphasAt(diashow_timeline_index',
                          RSub(diashow_current_time', diashow_start_time'), speed') =
                 AlphasAt(diashow_timeline_index,
                          RSub(diashow_current_time, diashow_start_time), speed) ]_vars

\* the speed has just been changed in the middle of a fade
C28_Witness ==
    /\ Blending
    /\ last.op = "set_speed"
    /\ last.speed # speed
    /\ RGt(CurrentFade, RZero)
    /\ RLt(CurrentFade, ROne)

\* the fractions of an entry at which the ramp is sampled
FadeSteps == 4

\* the entry drawn by the last tick and its length at the speed of the call
RenderedEntry == Entry(diashow_timeline, rendered.timeline_index)
RenderedLength == EntryLength(RenderedEntry, rendered.speed)
DrawnBlending ==
    /\ Drawn
    /\ RenderedSegment.kind \in {"Start", "CrossFade", "End"}
    /\ RGt(RenderedSegment.blending_time_in_seconds, RZero)

\* the fraction of the ramp passed at a fade factor: the factor itself when
\* fading in, its complement when fading out
Ramp(seg, fade) == IF seg.kind = "End" THEN RSub(ROne, fade) ELSE fade

\* C29: at any speed > 0 the fade factor of a cross-fade grows linearly with
\* the local offset and reaches 1 (next image at opacity 255 over the
\* previous image at 255) exactly when the local offset equals blend / speed,
\* the speed-scaled length of the entry; likewise the Start fade reaches 1
\* and the End fade reaches 0 exactly at the scaled end of their entry.
C29_FadeLinearOverScaledLength ==
    DrawnBlending =>
        /\ RenderedLength = RDiv(RenderedSegment.blending_time_in_seconds, rendered.speed)
        /\ Ramp(RenderedSegment, RenderedFade) =
              RDiv(rendered.time_in_seconds, RenderedLength)
        /\ \A k \in 0..(2 * FadeSteps) :
              Ramp(RenderedSegment,
                   fade_factor(RenderedSegment,
                               RMul(R(k, FadeSteps), RenderedLength), rendered.speed))
                 = R(k, FadeSteps)
        /\ (Ramp(RenderedSegment, RenderedFade) = ROne) <=>
              (rendered.time_in_seconds = RenderedLength)
        /\ segment_update(RenderedSegment, RenderedLength, rendered.speed) =
              CASE RenderedSegment.kind = "CrossFade" -> <<255, 255>>
                [] RenderedSegment.kind = "Start" -> <<255>>
                [] OTHER -> <<>>

\* a cross-fade drawn at a changed speed exactly at its scaled end
C29_Witness ==
    /\ DrawnBlending
    /\ RenderedSegment.kind = "CrossFade"
    /\ rendered.speed # ROne
    /\ rendered.time_in_seconds = RenderedLength
    /\ RenderedFade = ROne
    /\ RenderedAlphas = <<255, 255>>

(***************************************************************************)
(* The index-changed flag and the frame-rate cap                           *)
(***************************************************************************)
\* the loop has run the timeline part of an iteration, no callback yet
TickDone == pc = "running" /\ last.op = "tick"

\* the index at the beginning of that iteration
IndexAtTickBegin == last.timeline_index

\* C30: in every tick the index-changed flag is true exactly when the entry
\* index at the end of the tick differs from the index at its beginning,
\* including a change made by a seek handled during that tick, and the
\* frame-rate cap is skipped exactly on those ticks.
C30_FlagIffIndexChanged ==
    /\ [](TickDone =>
            /\ index_changed <=> (diashow_timeline_index # IndexAtTickBegin)
            /\ frame_cap_skipped <=> (diashow_timeline_index # IndexAtTickBegin))
    /\ [][ (TickDone /\ (GotoPrevImage \/ GotoNextImage)) =>
              /\ index_changed' <=> (diashow_timeline_index' # IndexAtTickBegin)
              /\ frame_cap_skipped' <=> (diashow_timeline_index' # IndexAtTickBegin)
         ]_vars

\* without a seek, the flag is true exactly when the tick advanced the
\* index, and the frame-rate cap is skipped exactly then
C30_FlagIffTickAdvanced ==
    TickDone =>
        /\ index_changed <=> (diashow_timeline_index # IndexAtTickBegin)
        /\ index_changed <=> (diashow_timeline_index = IndexAtTickBegin + 1)
        /\ frame_cap_skipped <=> index_changed

(***************************************************************************)
(* The timeline during playback                                            *)
(***************************************************************************)
\* C31: after the timeline is built, no scheduler operation (tick,
\* set_pause, set_speed, goto_prev_image, goto_next_image, cancel) changes
\* any entry's segment, unit-speed start or unit-speed end, nor the number
\* or order of entries; all repositioning is done only through the anchor
\* time, the index and the speed.
C31_TimelineImmutable ==
    /\ [](TimelineBuilt =>
            diashow_timeline.list = create_timeline(timing, diashow_timeline.images))
    /\ [][ TimelineBuilt =>
              /\ diashow_timeline' = diashow_timeline
              /\ timing' = timing
              /\ images' = images
              /\ image_order' = image_order ]_vars
    /\ [][ (TimelineBuilt /\ \E s \in Speeds : SetSpeed(s)) =>
              /\ diashow_timeline_index' = diashow_timeline_index
              /\ diashow_current_time' = diashow_current_time
              /\ loader' = loader /\ pause' = pause /\ run' = run ]_vars
    /\ [][ (TimelineBuilt /\ (GotoPrevImage \/ GotoNextImage)) =>
              /\ speed' = speed
              /\ diashow_current_time' = diashow_current_time
              /\ pause' = pause /\ run' = run ]_vars

\* the show has been repositioned by a speed change after a seek or an
\* advance: the timeline is the one start() built
C31_Witness ==
    /\ TimelineBuilt
    /\ pc = "running"
    /\ last.op = "set_speed"
    /\ last.speed # speed
    /\ diashow_timeline_index > 0
    /\ diashow_start_time # ClockAtStart
    /\ diashow_timeline.list = create_timeline(timing, diashow_timeline.images)

\* C32: in every state of a running playback loop, reached by any sequence
\* of ticks and seeks, the entry index satisfies
\* 0 <= index <= len(timeline) - 2: the index never points at the Stop
\* entry, so the tick's read of the entry at index + 1 is always inside the
\* timeline.
C32_IndexBelowStop ==
    Running =>
        /\ 0 <= diashow_timeline_index
        /\ diashow_timeline_index <= TimelineLen - 2
        /\ ActiveEntry(Player).segment.kind # "Stop"
        /\ (diashow_timeline_index + 1) + 1 \in DOMAIN diashow_timeline.list

\* "next image" pressed while the End entry, the one before Stop, is active:
\* the seek finds no Fixed entry and the index stays
C32_Witness ==
    /\ Running
    /\ diashow_timeline_index = TimelineLen - 2
    /\ ActiveEntry(Player).segment.kind = "End"
    /\ last.op = "goto_next_image"
    /\ last.timeline_index = diashow_timeline_index
    /\ Entry(diashow_timeline, diashow_timeline_index + 1).segment.kind = "Stop"

\* C33: set_speed keeps the unit-speed timeline position: when the active
\* entry has positive duration, elapsed * speed is the same immediately
\* before and after set_speed(newSpeed) (elapsed is scaled by
\* oldSpeed / newSpeed); when the active entry has zero duration, elapsed is
\* set to the entry's start at the new speed, discarding any amount by which
\* elapsed had already passed that start.
C33_SetSpeedKeepsUnitPosition ==
    [][ \A s \in Speeds :
          (Running /\ SetSpeed(s)) =>
              /\ speed' = s
              /\ diashow_current_time' = diashow_current_time
              /\ IF RGt(EntryLength(ActiveEntry(Player), speed), RZero)
                 THEN /\ RMul(RSub(diashow_current_time', diashow_start_time'), s) =
                            RMul(Elapsed(Player), speed)
                      /\ RSub(diashow_current_time', diashow_start_time') =
                            RMul(Elapsed(Player), RDiv(speed, s))
                 ELSE RSub(diashow_current_time', diashow_start_time') =
                            get_start_time(ActiveEntry(Player), s) ]_vars

\* the speed has just been changed on a cross-fade of zero duration: elapsed
\* is the start of the entry at the new speed
C33_Witness ==
    /\ Running
    /\ last.op = "set_speed"
    /\ last.speed # speed
    /\ ActiveEntry(Player).segment.kind = "CrossFade"
    /\ EntryLength(ActiveEntry(Player), speed) = RZero
    /\ Elapsed(Player) = get_start_time(ActiveEntry(Player), speed)
    /\ RGt(Elapsed(Player), RZero)

\* the active entry has zero duration and elapsed lies beyond its start
OvershotZeroLengthEntry ==
    /\ Running
    /\ menu_shown
    /\ EntryLength(ActiveEntry(Player), speed) = RZero
    /\ RGt(Elapsed(Player), get_start_time(ActiveEntry(Player), speed))

(***************************************************************************)
(* The two image slots                                                     *)
(***************************************************************************)
\* the image (by its index in the ordered list) a read of the drawn segment
\* asks for
AskedFor(index) == check_negative_index(diashow_timeline.images, index)

\* C34: double-buffer consistency: in every state reachable by any sequence
\* of tick advances and seeks, whenever the active segment renders image
\* index k, the image slot it reads (slot k mod 2) was last filled with image
\* k; a CrossFade(i, i+1) finds image i and image i+1 in the two different
\* slots.
C34_SlotHoldsRenderedImage ==
    Drawn =>
        /\ \A r \in 1..Len(segment_reads(RenderedSegment)) :
              get_image(rendered.loader, diashow_timeline.images,
                        segment_reads(RenderedSegment)[r]) =
                 AskedFor(segment_reads(RenderedSegment)[r])
        /\ RenderedSegment.kind = "CrossFade" =>
              /\ RenderedSegment.next_index = RenderedSegment.index + 1
              /\ {rendered.loader.image0_index, rendered.loader.image1_index} =
                    {RenderedSegment.index, RenderedSegment.next_index}

\* after a seek forward the cross-fade from the second to the third image is
\* drawn: the slot of the first image has been filled a second time, with
\* the third image
C34_Witness ==
    /\ Drawn
    /\ RenderedSegment.kind = "CrossFade"
    /\ RenderedSegment.index = 1
    /\ RenderedSegment.next_index = 2
    /\ rendered.loader.image0_index = 2
    /\ rendered.loader.image1_index = 1
    /\ RLt(diashow_start_time, ClockAtStart)

(***************************************************************************)
(* Termination                                                             *)
(***************************************************************************)
\* a seek or a speed change
SeekOrSpeedChange == GotoPrevImage \/ GotoNextImage \/ \E s \in Speeds : SetSpeed(s)

\* the loop has been left at the Stop entry
Finished == pc = "stopped"

\* C35: if the clock advances without bound, the pause flag is not set
\* forever, and only finitely many seek and speed-change operations occur,
\* the playback loop eventually reaches the Stop entry and exits; the only
\* runs that never finish are those paused forever or seeking backward
\* infinitely often.
C35_Termination ==
    ( /\ []<>(~pause)
      /\ <>[][~SeekOrSpeedChange]_vars )
    => <>Finished

\* the same with the pause flag cleared for good from some time on
C35_TerminationUnpausedForGood ==
    ( /\ <>[](~pause)
      /\ <>[][~SeekOrSpeedChange]_vars )
    => <>Finished

\* with the pause flag cleared for good from some time on and finitely many
\* seeks and speed changes, the loop is left: at the Stop entry, or by the
\* AssertionError of a seek
C35_LoopLeftWhenUnpausedForGood ==
    ( /\ <>[](~pause)
      /\ <>[][~SeekOrSpeedChange]_vars )
    => <>(pc \in {"stopped", "crashed"})

(***************************************************************************)
(* Ticks while paused                                                      *)
(***************************************************************************)
\* an iteration of the loop that runs with the pause flag set
PausedTick == pause /\ AnyTick

\* C36: while the pause flag is set and no seek is invoked, ticks leave the
\* entry index unchanged, for every state in which the pause flag can be
\* set, including when the active entry has zero duration or elapsed
\* already lies beyond the next entry's start.
C36_PausedTickKeepsIndex ==
    [][ PausedTick => diashow_timeline_index' = diashow_timeline_index ]_vars

\* a paused tick leaves elapsed as it was (the anchor moves with the clock)
C36_PausedTickKeepsElapsed ==
    [][ PausedTick =>
          RSub(diashow_current_time', diashow_start_time')
            = RSub(previous_time, diashow_start_time)
      ]_vars

\* a paused tick keeps the index unless the next entry was overdue when the
\* tick began
C36_PausedTickKeepsIndexUnlessOverdue ==
    [][ (PausedTick /\ speed # RZero
         /\ ~tick_reached(diashow_timeline, diashow_timeline_index,
                          RSub(previous_time, diashow_start_time), speed)) =>
          /\ diashow_timeline_index' = diashow_timeline_index
          /\ pc' = "running"
      ]_vars

\* a paused tick does not end the show
C36_PausedTickKeepsRunning ==
    [][ PausedTick => pc' = "running" ]_vars

(***************************************************************************)
(* The image order of the timeline                                         *)
(***************************************************************************)
\* the index of the k-th Fixed entry of the timeline (k from 1)
FixedEntryIndex(k) ==
    CHOOSE j \in FixedIndices : Cardinality({ i \in FixedIndices : i < j }) = k - 1

\* the image the k-th Fixed entry shows
ShownByFixed(k) == ImageOf(Entry(diashow_timeline, FixedEntryIndex(k)).segment.index)

\* the Fixed entries showing the i-th image of the caller's list
FixedEntriesShowing(i) ==
    { j \in FixedIndices : ImageOf(Entry(diashow_timeline, j).segment.index) = images[i] }

\* C37: for every non-empty image list and every image order, each image
\* of the list is shown by exactly one Fixed entry of the timeline, and the
\* Fixed entries follow the chosen order (list order for FORWARD, reversed
\* list order for REVERSE, some permutation for RANDOM); create_timeline
\* does not reorder or modify the caller's image list.
C37_FixedEntriesFollowOrder ==
    /\ []((TimelineBuilt /\ Len(images) > 0) =>
            LET n == Len(images)
            IN  /\ Cardinality(FixedIndices) = n
                /\ \A i \in 1..n : Cardinality(FixedEntriesShowing(i)) = 1
                /\ image_order = "FORWARD" =>
                     \A k \in 1..n : ShownByFixed(k) = images[k]
                /\ image_order = "REVERSE" =>
                     \A k \in 1..n : ShownByFixed(k) = images[n + 1 - k])
    /\ [][images' = images]_vars

\* a timeline built in random order whose first Fixed entry shows the second
\* image of the list, and one built in reverse order for two images or more
C37_Witness ==
    /\ TimelineBuilt
    /\ Len(images) >= 2
    /\ image_order = "RANDOM"
    /\ ShownByFixed(1) = images[2]
    /\ ShownByFixed(2) = images[1]

(***************************************************************************)
(* Ratings outside 1..5                                                    *)
(*                                                                         *)
(* The rating is int(tag) of the image's rating tag, any integer.          *)
(* RatingSpec draws nodes whose images have ratings below, inside and      *)
(* above 1..5, applies update_timing, and lets start() build the timeline. *)
(***************************************************************************)
\* the ratings of the images of the nodes drawn
RatingValues == {-1, 0, 1, 5, 6}

RatingImages ==
    UNION { { [i \in 1..n |-> [filename |-> i, rating |-> f[i]]] :
                f \in [1..n -> RatingValues] } : n \in 1..MaxImages }

\* the default weighting, and one with another weight for the 0 star images
RatingWeightings ==
    { create_default_weighting, [create_default_weighting EXCEPT ![0] = 200] }

RatingConfigs ==
    { [min_time_per_image |-> T_00_500_SECS,
       max_time_per_image |-> T_30_000_SECS,
       blending_time |-> b,
       weighting |-> w,
       show_duration_in_minutes |-> RInt(1)] :
        b \in {NoBlending, <<T_00_250_SECS>>}, w \in RatingWeightings }

RatingInit ==
    /\ images \in RatingImages
    /\ image_order \in ImageOrders
    /\ diashow_config \in RatingConfigs
    /\ timing = NoTiming
    /\ diashow_timeline = NoneTimeline
    /\ speed = ROne
    /\ pause = FALSE
    /\ run = TRUE
    /\ diashow_timeline_index = -1
    /\ diashow_start_time = RZero
    /\ diashow_current_time = RZero
    /\ previous_time = RZero
    /\ real_diashow_start_time = RZero
    /\ consider_menu = FALSE
    /\ index_changed = FALSE
    /\ menu_shown = FALSE
    /\ loader = ImageLoader
    /\ rendered = NoRender
    /\ pc = "menu"
    /\ failure = "none"
    /\ last = [op |-> "init", delta |-> RZero, timeline_index |-> -1,
               speed |-> ROne, prev_speed |-> ROne, started |-> -1]

RatingNext ==
    \/ UpdateTiming
    \/ Start

RatingSpec == RatingInit /\ [][RatingNext]_vars

\* the number of stars a rating stands for: itself inside 1..5, else none
StarsOf(rating) == IF rating \in 1..5 THEN rating ELSE 0

\* the images of the node a rating class holds
ImagesOfStars(r) == { i \in 1..Len(images) : StarsOf(images[i].rating) = r }

\* the time the k-th Fixed entry and the blending after it give its image
TimeOfFixed(k) ==
    RAdd(EntryLength(Entry(diashow_timeline, FixedEntryIndex(k)), ROne),
         timing.blending_time_in_seconds)

\* C38: an image whose rating is outside 1..5 (0, negative, or above 5) is
\* treated as a 0-star image consistently in both places: it is counted in
\* the 0-star count by DiashowCalculator and its Fixed entry gets the
\* 0-star duration, so the calculator's counts and the timeline's per-image
\* durations always agree for every rating value.
C38_OutOfRangeRatingIsZeroStar ==
    /\ \A r \in 0..5 : star_cnt(images, r) = Cardinality(ImagesOfStars(r))
    /\ (TimingComputed /\ TimelineBuilt) =>
          \A k \in 1..Cardinality(FixedIndices) :
              /\ TimeOfFixed(k) =
                   timing.image_duration_in_seconds[StarsOf(ShownByFixed(k).rating)]
              /\ ShownByFixed(k).rating \notin 1..5 =>
                   /\ CountedRating(ShownByFixed(k)) = 0
                   /\ TimeOfFixed(k) = timing.image_duration_in_seconds[0]

\* a timeline for an image rated above 5 and an image rated 5 stars: the
\* first is the only one counted as 0 star, and its Fixed entry gives it the
\* 0 star time, which is not the 5 star time
C38_Witness ==
    /\ TimingComputed
    /\ TimelineBuilt
    /\ Len(images) >= 2
    /\ images[1].rating > 5
    /\ images[2].rating = 5
    /\ star_cnt(images, 0) = 1
    /\ timing.image_duration_in_seconds[0] # timing.image_duration_in_seconds[5]
    /\ \E k \in 1..Cardinality(FixedIndices) :
         /\ ShownByFixed(k) = images[1]
         /\ TimeOfFixed(k) = timing.image_duration_in_seconds[0]

====
